---- MODULE Spec2Model ----
(***************************************************************************)
(* A model of the sewing-pattern geometry engine of                        *)
(* src/packages/pattern/core.py (BasicPattern, ParametrizedPattern).       *)
(*                                                                         *)
(* Numbers.  The program computes in floating point; the model computes    *)
(* in exact rational arithmetic.  A rational is a pair <<n, d>> with       *)
(* d > 0 and gcd(n, d) = 1.  numpy's closeness test is modelled with its   *)
(* real tolerances (rtol 1e-5, atol 1e-8, or the atol the call passes).    *)
(* A square root is taken only of a perfect square (the model's patterns   *)
(* keep their target lines on a lattice where this is so); TLC stops with  *)
(* an error on any other argument, it never rounds.                        *)
(*                                                                         *)
(* Containers.  A python list is a sequence; python indices (vertex ids,   *)
(* edge ids, panel ids) keep their 0-based values, so the element with id  *)
(* i is at position i + 1.  A dict is a sequence of keys (python keeps     *)
(* insertion order) and a function on them.  A missing dict key is the     *)
(* value Absent, python's None is None.                                    *)
(***************************************************************************)
EXTENDS Integers, Sequences, FiniteSets, TLC

VARIABLES store, pc, io, backup

vars == <<store, pc, io, backup>>

(* every value of the model is a tuple, so that any two can be compared:   *)
(* a number has two components, None and Absent one, a python list of      *)
(* two numbers three (a tag and the numbers)                               *)
None == <<"None">>
Absent == <<"Absent">>
ListValue(a, b) == <<"list", a, b>>
IsList(value) == Len(value) = 3

(* the element of a set of one element. A value that the code computes     *)
(* once and names is bound as the element of a set of one element, as in   *)
(*    Only({ F(v) : v \in {computed} })   or   \E v \in {computed} : A(v),  *)
(* which evaluates it once.                                                *)
Only(S) == CHOOSE v \in S : TRUE

----------------------------------------------------------------------------
(* Rational arithmetic *)

(* A rational is the pair <<numerator, denominator>> in lowest terms with  *)
(* a positive denominator. Every operator binds its arguments once.        *)

Abs(n) == IF n < 0 THEN -n ELSE n

RECURSIVE GCD(_, _)
GCD(a, b) == IF b = 0 THEN a ELSE GCD(b, a % b)

(* n/d, which is not in lowest terms, with g the divisor of both *)
Reduced(n, d, g) ==
    IF d < 0 THEN <<-(n \div g), -(d \div g)>> ELSE <<n \div g, d \div g>>

Rat(n, d) == Only({Reduced(m, e, GCD(Abs(m), Abs(e))) : m \in {n}, e \in {d}})

I(n) == <<n, 1>>
Zero == I(0)
One == I(1)

(* the sum over the least common denominator, to keep the numbers small; g *)
(* divides both denominators                                               *)
SumOver(a, b, g) ==
    Rat(a[1] * (b[2] \div g) + b[1] * (a[2] \div g), (a[2] \div g) * b[2])

RAdd(a, b) == Only({SumOver(p, q, GCD(p[2], q[2])) : p \in {a}, q \in {b}})
RNeg(a) == Only({<<-p[1], p[2]>> : p \in {a}})
RSub(a, b) == RAdd(a, RNeg(b))
RMul(a, b) == Only({Rat(p[1] * q[1], p[2] * q[2]) : p \in {a}, q \in {b}})
RInv(a) == Only({Rat(p[2], p[1]) : p \in {a}})
RDiv(a, b) == RMul(a, RInv(b))
RAbs(a) == Only({<<Abs(p[1]), p[2]>> : p \in {a}})
RSign(a) == Only({IF p[1] > 0 THEN 1 ELSE IF p[1] < 0 THEN -1 ELSE 0 : p \in {a}})

(* the order of two non-negative fractions a/b and c/d, by their continued *)
(* fractions: -1, 0 or 1.  No product is formed, so no value overflows.    *)
RECURSIVE CmpPos(_, _, _, _)
CmpPos(a, b, c, d) ==
    IF a \div b < c \div d THEN -1
    ELSE IF a \div b > c \div d THEN 1
    ELSE IF a % b = 0 /\ c % d = 0 THEN 0
    ELSE IF a % b = 0 THEN -1
    ELSE IF c % d = 0 THEN 1
    ELSE -CmpPos(b, a % b, d, c % d)

(* the order of two rationals: -1, 0 or 1 *)
CmpRat(a, b) ==
    IF a[1] < 0 /\ b[1] >= 0 THEN -1
    ELSE IF a[1] >= 0 /\ b[1] < 0 THEN 1
    ELSE IF a[1] >= 0 THEN CmpPos(a[1], a[2], b[1], b[2])
    ELSE -CmpPos(-a[1], a[2], -b[1], b[2])

RCmp(a, b) == Only({CmpRat(p, q) : p \in {a}, q \in {b}})

RLt(a, b) == RCmp(a, b) < 0
RLe(a, b) == RCmp(a, b) <= 0

(* the exact root of a perfect square *)
ISqrt(n) == CHOOSE r \in 0..n : r * r = n
RSqrt(a) == Only({<<ISqrt(p[1]), ISqrt(p[2])>> : p \in {a}})

(* numpy.isclose(a, b, atol=atol): |a - b| <= atol + rtol * |b|, rtol 1e-5 *)
RTol == <<1, 100000>>
DefaultATol == <<1, 100000000>>
PadATol == <<3, 2>>

IsCloseTol(a, b, atol) ==
    Only({RLe(RAbs(RSub(p, q)), RAdd(atol, RMul(RTol, RAbs(q)))) : p \in {a}, q \in {b}})

IsClose(a, b) == IsCloseTol(a, b, DefaultATol)

(* 2-vectors and 3-vectors of rationals *)
V2(x, y) == <<I(x), I(y)>>
VAdd(u, v) == Only({[i \in DOMAIN p |-> RAdd(p[i], q[i])] : p \in {u}, q \in {v}})
VSub(u, v) == Only({[i \in DOMAIN p |-> RSub(p[i], q[i])] : p \in {u}, q \in {v}})
VNeg(u) == Only({[i \in DOMAIN p |-> RNeg(p[i])] : p \in {u}})
VScale(k, u) == Only({[i \in DOMAIN p |-> RMul(c, p[i])] : c \in {k}, p \in {u}})

RECURSIVE RSum(_)
RSum(s) == IF Len(s) = 0 THEN Zero ELSE RAdd(Head(s), RSum(Tail(s)))

Dot(u, v) == Only({RSum([i \in DOMAIN p |-> RMul(p[i], q[i])]) : p \in {u}, q \in {v}})
Norm(u) == RSqrt(Dot(u, u))
AllClose0(u) == \A i \in DOMAIN u : IsClose(u[i], Zero)

----------------------------------------------------------------------------
(* The pattern spec store: one pattern object (self) *)

Range(s) == {s[i] : i \in DOMAIN s}

RECURSIVE SeqOfSet(_)
SeqOfSet(S) ==
    IF S = {} THEN <<>>
    ELSE LET x == CHOOSE y \in S : TRUE IN <<x>> \o SeqOfSet(S \ {x})

(* panel_spec_template *)
panel_spec_template ==
    [translation |-> <<Zero, Zero, Zero>>, rotation |-> <<Zero, Zero, Zero>>,
     vertices |-> <<>>, edges |-> <<>>]

(* a function with no key, for an empty dict *)
EmptyDict == [k \in {} |-> None]

(* pattern_spec_template, as BasicPattern.__init__ copies it for an empty  *)
(* pattern; cls is the class of the object, which decides the method a     *)
(* self.method() call runs                                                 *)
EmptyStore(cls) ==
    [cls |-> cls,
     panelNames |-> <<>>, panels |-> EmptyDict, stitches |-> <<>>,
     paramNames |-> <<>>, parameters |-> EmptyDict, parameter_order |-> <<>>,
     hasConstraints |-> FALSE, constraintNames |-> <<>>,
     constraints |-> EmptyDict, constraint_order |-> Absent]

(* self.pattern['panels'][name] = panel *)
SetPanel(st, name, panel) ==
    [st EXCEPT !.panelNames = IF name \in Range(@) THEN @ ELSE Append(@, name),
               !.panels = (name :> panel) @@ @]

Ok(st) == [st |-> st, err |-> "ok"]
Raise(st, e) == [st |-> st, err |-> e]

----------------------------------------------------------------------------
(* Panel codec: decode *)

(* An operator's heavy intermediate value is handed on as an argument of   *)
(* the operator for the next lines of the method, so that it is written    *)
(* once.                                                                   *)

XY(row) == <<row[1], row[2]>>
Curv(row) == <<row[3], row[4]>>

(* BasicPattern._edge_dict *)
EdgeDict(vstart, vend, curvature) ==
    [endpoints |-> <<vstart, vend>>,
     curvature |-> IF AllClose0(curvature) THEN Absent ELSE curvature]

(* a row that numpy's isclose(row, 0, atol=1.5) finds all zero *)
IsPadRow(row) == \A i \in 1..4 : IsCloseTol(row[i], Zero, PadATol)

(* edge_sequence[selection] of panel_from_numeric *)
DropPadRows(edge_sequence) == SelectSeq(edge_sequence, LAMBDA row : ~IsPadRow(row))

(* the vertex that k edge vectors of es lead to from the origin *)
RECURSIVE WalkTo(_, _)
WalkTo(es, k) ==
    IF k = 0 THEN <<Zero, Zero>> ELSE VAdd(WalkTo(es, k - 1), XY(es[k]))

(* the vertices of the loop over range(len(edge_sequence) - 1) *)
WalkVertices(es) == [k \in 1..Len(es) |-> WalkTo(es, k - 1)]

(* fin_vert *)
FinVert(es) == VAdd(WalkTo(es, Len(es) - 1), XY(es[Len(es)]))

(* the last edge of panel_from_numeric: it returns to vertex 0 when the    *)
(* walk ends at the origin, else it ends at one extra vertex               *)
LastEdge(n, closed, curvature) ==
    EdgeDict(n - 1, IF closed THEN 0 ELSE n, curvature)

(* vertices and edges of panel_from_numeric after its last edge *)
DecodedVertices(verts, fin_vert) ==
    IF AllClose0(fin_vert) THEN verts ELSE Append(verts, fin_vert)

DecodedEdges(es, fin_vert) ==
    Append([i \in 1..(Len(es) - 1) |-> EdgeDict(i - 1, i, Curv(es[i]))],
           LastEdge(Len(es), AllClose0(fin_vert), Curv(es[Len(es)])))

(* "update panel itself" and "3D placement setup" of panel_from_numeric *)
UpdatedPanel(panel, vertices, edges, rotation, translation) ==
    [panel EXCEPT !.vertices = vertices,
                  !.edges = edges,
                  !.translation = IF translation # None THEN translation ELSE @,
                  !.rotation = IF rotation # None THEN rotation ELSE @]

(* panel_from_numeric from "Convert edge representation" on: st1 has the   *)
(* panel, es are the rows kept; edge_sequence[-1] of no row is an          *)
(* IndexError                                                              *)
PanelFromRows(st1, panel_name, es, rotation, translation) ==
    IF Len(es) = 0 THEN Raise(st1, "IndexError")
    ELSE Only({Ok(SetPanel(st1, panel_name,
                    UpdatedPanel(st1.panels[panel_name],
                                 DecodedVertices(WalkVertices(es), fin_vert),
                                 DecodedEdges(es, fin_vert),
                                 rotation, translation))) :
                fin_vert \in {FinVert(es)}})

(* BasicPattern.panel_from_numeric *)
BasicPanelFromNumeric(st, panel_name, edge_sequence, rotation, translation, padded) ==
    Only({PanelFromRows(st1, panel_name, es, rotation, translation) :
            st1 \in {IF panel_name \in Range(st.panelNames) THEN st
                     ELSE SetPanel(st, panel_name, panel_spec_template)},
            es \in {IF padded THEN DropPadRows(edge_sequence) ELSE edge_sequence}})

(* the edges of an influence list in the order of its two nested loops,   *)
(* from influence i on: <<key, influence index, edge index>>               *)
RECURSIVE InfluenceEdgeRefs(_, _, _)
InfluenceEdgeRefs(key, influence, i) ==
    IF i > Len(influence) THEN <<>>
    ELSE [e \in 1..Len(influence[i].edge_list) |-> <<key, i, e>>]
            \o InfluenceEdgeRefs(key, influence, i + 1)

(* the edges of a constraint *)
EdgeRefsOf(st, constraint_n) ==
    InfluenceEdgeRefs(constraint_n, st.constraints[constraint_n].influence, 1)

(* the constraint edges in the order _invalidate_all_values visits them    *)
RECURSIVE EdgeRefsFrom(_, _)
EdgeRefsFrom(st, k) ==
    IF k > Len(st.constraintNames) THEN <<>>
    ELSE EdgeRefsOf(st, st.constraintNames[k]) \o EdgeRefsFrom(st, k + 1)

ConstraintEdgeRefs(st) == EdgeRefsFrom(st, 1)

CEdge(st, ref) == st.constraints[ref[1]].influence[ref[2]].edge_list[ref[3]]

SetCEdge(st, ref, edge) ==
    [st EXCEPT !.constraints[ref[1]].influence[ref[2]].edge_list[ref[3]] = edge]

(* the constraint loop of _invalidate_all_values from edge k of refs on;   *)
(* reading edge['value'] of an edge that has no such key raises KeyError,  *)
(* after the edits before it                                               *)
RECURSIVE InvalidateEdges(_, _, _)
InvalidateEdges(st, refs, k) ==
    IF k > Len(refs) THEN Ok(st)
    ELSE IF CEdge(st, refs[k]).value = Absent THEN Raise(st, "KeyError")
    ELSE Only({InvalidateEdges(edited, refs, k + 1) :
                edited \in {SetCEdge(st, refs[k], [CEdge(st, refs[k]) EXCEPT !.value = None])}})

(* a faulty parameter loop that leaves the values as they are *)
InvalidateParameters_Kept(st) == st

(* the parameter loop of _invalidate_all_values *)
InvalidateParameters(st) ==
    [st EXCEPT !.parameters = [p \in DOMAIN @ |-> [@[p] EXCEPT !.value = None]]]

(* ParametrizedPattern._invalidate_all_values *)
InvalidateAllValues(st) ==
    Only({InvalidateEdges(edited, refs, 1) :
            edited \in {InvalidateParameters(st)},
            refs \in {IF st.hasConstraints THEN ConstraintEdgeRefs(st) ELSE <<>>}})

(* what follows super()'s update in ParametrizedPattern.panel_from_numeric *)
(* and pattern_from_tensors: the values are invalidated; r is the result   *)
(* of the update of BasicPattern, which a BasicPattern object returns      *)
AfterDirectUpdate(cls, r) ==
    IF cls = "ParametrizedPattern" /\ r.err = "ok" THEN InvalidateAllValues(r.st) ELSE r

(* panel_from_numeric as the object's class defines it *)
PanelFromNumeric(st, panel_name, edge_sequence, rotation, translation, padded) ==
    Only({AfterDirectUpdate(st.cls, r) :
            r \in {BasicPanelFromNumeric(st, panel_name, edge_sequence,
                                         rotation, translation, padded)}})

(* 'panel_' + str(idx) *)
PanelName(idx) == "panel_" \o ToString(idx)

(* the panel loop of pattern_from_tensors, from panel idx on; the call of  *)
(* self.panel_from_numeric runs the method of the object's class, and an   *)
(* error of it ends the loop (DecodeNextPanel takes its result r)          *)
RECURSIVE DecodePanels(_, _, _, _, _, _)
RECURSIVE DecodeNextPanel(_, _, _, _, _, _)
DecodePanels(st, pattern_representation, panel_rotations, panel_translations, padded, idx) ==
    IF idx >= Len(pattern_representation) THEN Ok(st)
    ELSE Only({DecodeNextPanel(r, pattern_representation, panel_rotations,
                               panel_translations, padded, idx + 1) :
                r \in {PanelFromNumeric(st, PanelName(idx), pattern_representation[idx + 1],
                        IF panel_rotations # None THEN panel_rotations[idx + 1] ELSE None,
                        IF panel_translations # None THEN panel_translations[idx + 1] ELSE None,
                        padded)}})

DecodeNextPanel(r, pattern_representation, panel_rotations, panel_translations, padded, idx) ==
    IF r.err # "ok" THEN r
    ELSE DecodePanels(r.st, pattern_representation, panel_rotations,
                      panel_translations, padded, idx)

(* pattern_representation.shape[1] *)
EdgesPerPanel(pattern_representation) == Len(pattern_representation[1])

(* one side of a decoded stitch: in_panel_order[id // E], id % E *)
DecodeSide(pattern_edge_id, edges_per_panel) ==
    [panel |-> PanelName(pattern_edge_id \div edges_per_panel),
     edge |-> pattern_edge_id % edges_per_panel]

(* pattern_from_tensors from "remove existing stitches" on; r is the       *)
(* result of the panel loop, stitches is None or the [2][S] array          *)
DecodeStitches(r, pattern_representation, stitches, padded) ==
    IF r.err # "ok" THEN r
    ELSE IF stitches # None /\ Len(stitches) > 0
    THEN IF ~padded THEN Raise([r.st EXCEPT !.stitches = <<>>], "NotImplementedError")
         ELSE Ok([r.st EXCEPT !.stitches =
                [stitch_id \in 1..Len(stitches[1]) |->
                    [side_id \in 1..Len(stitches) |->
                        DecodeSide(stitches[side_id][stitch_id],
                                   EdgesPerPanel(pattern_representation))]]])
    ELSE Ok([r.st EXCEPT !.stitches = <<>>])

(* BasicPattern.pattern_from_tensors *)
BasicPatternFromTensors(st, pattern_representation, panel_rotations, panel_translations, stitches, padded) ==
    Only({DecodeStitches(r, pattern_representation, stitches, padded) :
            r \in {DecodePanels([st EXCEPT !.panelNames = <<>>, !.panels = EmptyDict],
                                pattern_representation, panel_rotations,
                                panel_translations, padded, 0)}})

(* pattern_from_tensors as the object's class defines it *)
PatternFromTensors(st, pattern_representation, panel_rotations, panel_translations, stitches, padded) ==
    Only({AfterDirectUpdate(st.cls, r) :
            r \in {BasicPatternFromTensors(st, pattern_representation, panel_rotations,
                                           panel_translations, stitches, padded)}})

----------------------------------------------------------------------------
(* 3D placement *)

(* cosine and sine of an angle in degrees; the model's panels are rotated  *)
(* by multiples of 90 degrees, where both are integers                     *)
Quarter(deg) == (deg[1] \div 90) % 4
Cos(deg) == CASE Quarter(deg) = 0 -> I(1) [] Quarter(deg) = 2 -> I(-1) [] OTHER -> Zero
Sin(deg) == CASE Quarter(deg) = 1 -> I(1) [] Quarter(deg) = 3 -> I(-1) [] OTHER -> Zero

MatMul(A, B) ==
    Only({[i \in 1..3 |-> [j \in 1..3 |-> RSum([k \in 1..3 |-> RMul(M[i][k], N[k][j])])]] :
            M \in {A}, N \in {B}})
MatVec(A, v) ==
    Only({[i \in 1..3 |-> RSum([k \in 1..3 |-> RMul(M[i][k], w[k])])] : M \in {A}, w \in {v}})

(* Rotation.from_euler('xyz', rotation, degrees=True).as_matrix(): scipy   *)
(* reads lower-case axes as rotations about the fixed axes x, then y, then *)
(* z, which is the matrix Rz . Ry . Rx                                     *)
EulerMatrix(rotation) ==
    LET a == rotation[1]
        b == rotation[2]
        c == rotation[3]
        Rx == <<<<One, Zero, Zero>>, <<Zero, Cos(a), RNeg(Sin(a))>>, <<Zero, Sin(a), Cos(a)>>>>
        Ry == <<<<Cos(b), Zero, Sin(b)>>, <<Zero, One, Zero>>, <<RNeg(Sin(b)), Zero, Cos(b)>>>>
        Rz == <<<<Cos(c), RNeg(Sin(c)), Zero>>, <<Sin(c), Cos(c), Zero>>, <<Zero, Zero, One>>>>
    IN  MatMul(Rz, MatMul(Ry, Rx))

(* BasicPattern._point_in_3D with the rotation given as a matrix *)
PointIn3D(local_coord, rot_matrix, translation) ==
    VAdd(MatVec(rot_matrix, <<local_coord[1], local_coord[2], Zero>>), translation)

(* numpy's min, max and argmin of a non-empty sequence of numbers; argmin  *)
(* and argmax give the first position (0-based) of the extreme value       *)
RMin(s) == CHOOSE x \in Range(s) : \A y \in Range(s) : RLe(x, y)
RMax(s) == CHOOSE x \in Range(s) : \A y \in Range(s) : RLe(y, x)
ArgMin(s) == (CHOOSE i \in DOMAIN s : s[i] = RMin(s) /\ \A j \in 1..(i - 1) : s[j] # RMin(s)) - 1
ArgMax(s) == (CHOOSE i \in DOMAIN s : s[i] = RMax(s) /\ \A j \in 1..(i - 1) : s[j] # RMax(s)) - 1

Xs(vertices) == [i \in DOMAIN vertices |-> vertices[i][1]]
Ys(vertices) == [i \in DOMAIN vertices |-> vertices[i][2]]

Half(a) == RMul(a, <<1, 2>>)

(* the corners of the bounding box of the vertices *)
LowLeft(vertices) == <<RMin(Xs(vertices)), RMin(Ys(vertices))>>
TopRight(vertices) == <<RMax(Xs(vertices)), RMax(Ys(vertices))>>

(* mid_points_2D of _panel_universal_transtation *)
MidPoints2D(low_left, top_right) ==
    <<<<Half(RAdd(top_right[1], low_left[1])), top_right[2]>>,
      <<Half(RAdd(top_right[1], low_left[1])), low_left[2]>>,
      <<top_right[1], Half(RAdd(top_right[2], low_left[2]))>>,
      <<low_left[1], Half(RAdd(top_right[2], low_left[2]))>>>>

(* mid_points_3D[top_mid_point] *)
TopMidPoint(mid_points_3D) ==
    mid_points_3D[ArgMax([i \in 1..4 |-> mid_points_3D[i][2]]) + 1]

(* mid_points_3D of a panel *)
MidPoints3D(mid_points_2D, rot_matrix, translation) ==
    [i \in 1..4 |-> PointIn3D(mid_points_2D[i], rot_matrix, translation)]

(* BasicPattern._panel_universal_transtation *)
PanelUniversalTranslation(st, panel_name) ==
    Only({TopMidPoint(mid_points_3D) :
            mid_points_3D \in
                {MidPoints3D(mid_points_2D, rot_matrix, st.panels[panel_name].translation) :
                    mid_points_2D \in
                        {MidPoints2D(low_left, top_right) :
                            low_left \in {LowLeft(st.panels[panel_name].vertices)},
                            top_right \in {TopRight(st.panels[panel_name].vertices)}},
                    rot_matrix \in {EulerMatrix(st.panels[panel_name].rotation)}}})

----------------------------------------------------------------------------
(* Panel orderer *)

(* the panel names of the model in python's string order *)
NameOrder == <<"back", "front", "panel_0", "panel_1", "panel_2", "sleeve">>
NameRank(name) == CHOOSE i \in DOMAIN NameOrder : NameOrder[i] = name

(* an order of the couples by the reference alone: sorted() is stable, so  *)
(* couples of equal reference keep the order of name_list                  *)
CoupleLess_ByReference(ref_a, name_a, ref_b, name_b) == RLt(ref_a, ref_b)

(* the order of the couples (reference, name) that sorted(zip(reference,   *)
(* name_list)) sorts by: the reference first, the name on equal references *)
CoupleLess(ref_a, name_a, ref_b, name_b) ==
    \/ RLt(ref_a, ref_b)
    \/ ref_a = ref_b /\ NameRank(name_a) < NameRank(name_b)

RemoveAt(s, i) == SubSeq(s, 1, i - 1) \o SubSeq(s, i + 1, Len(s))

(* sorted(zip(reference, name_list)), its names: repeatedly the first      *)
(* couple that no other couple is less than                                *)
RECURSIVE SortedNames(_, _, _)
SortedNames(name_list, location_dict, dim) ==
    IF name_list = <<>> THEN <<>>
    ELSE LET Ref(i) == location_dict[name_list[i]][dim + 1]
             IsLeast(i) == \A j \in DOMAIN name_list :
                            ~CoupleLess(Ref(j), name_list[j], Ref(i), name_list[i])
             first == CHOOSE i \in DOMAIN name_list :
                            IsLeast(i) /\ \A j \in 1..(i - 1) : ~IsLeast(j)
         IN  <<name_list[first]>> \o SortedNames(RemoveAt(name_list, first), location_dict, dim)

(* s[from:to] = sub, with python's 0-based half-open slice *)
ReplaceSlice(s, from, to, sub) == SubSeq(s, 1, from) \o sub \o SubSeq(s, to + 1, Len(s))

(* the default of panel_order's tolerance *)
DefaultTolerance == 5

(* BasicPattern.panel_order with name_list and location_dict given; the    *)
(* result is the sorted names, or the error raised: the unzipping of no    *)
(* couple cannot be unpacked into two names, and after a loop over the     *)
(* empty range(1, 1) the name fuzzy_end is unbound.                        *)
(* FuzzyLoop is the loop "for fuzzy_end in range(1, len(sorted_names))"    *)
(* from fuzzy_end on: sorted_reference is read of the names as first       *)
(* sorted (first_sorted), names are sorted_names with the slices assigned  *)
(* so far; its result is <<sorted_names, fuzzy_start>>. FuzzyTail is the   *)
(* code after the loop.                                                    *)
(* an order by the one key of the call, with no second look at the names   *)
(* of similar values                                                       *)
PanelOrderFrom_OneKey(name_list, location_dict, dim, tolerance) ==
    [names |-> SortedNames(name_list, location_dict, dim), err |-> "ok"]

RECURSIVE PanelOrderFrom(_, _, _, _)
RECURSIVE FuzzyLoop(_, _, _, _, _, _, _)
RECURSIVE FuzzyTail(_, _, _, _)
RECURSIVE FuzzySorted(_, _, _, _)
PanelOrderFrom(name_list, location_dict, dim, tolerance) ==
    Only({FuzzySorted(sorted_names, location_dict, dim, tolerance) :
            sorted_names \in {SortedNames(name_list, location_dict, dim)}})

FuzzySorted(sorted_names, location_dict, dim, tolerance) ==
    IF Len(sorted_names) = 0 THEN [names |-> <<>>, err |-> "ValueError"]
    ELSE IF dim + 1 < 3
    THEN IF Len(sorted_names) = 1
         THEN [names |-> sorted_names, err |-> "UnboundLocalError"]
         ELSE Only({FuzzyTail(after, location_dict, dim, tolerance) :
                        after \in {FuzzyLoop(sorted_names, sorted_names, 0, 1,
                                             location_dict, dim, tolerance)}})
    ELSE [names |-> sorted_names, err |-> "ok"]

FuzzyLoop(first_sorted, names, fuzzy_start, fuzzy_end, location_dict, dim, tolerance) ==
    IF fuzzy_end > Len(first_sorted) - 1 THEN <<names, fuzzy_start>>
    ELSE IF ~RLt(RSub(location_dict[first_sorted[fuzzy_end + 1]][dim + 1],
                      location_dict[first_sorted[fuzzy_start + 1]][dim + 1]),
                 tolerance)
    THEN Only({FuzzyLoop(first_sorted, resorted, fuzzy_end, fuzzy_end + 1,
                         location_dict, dim, tolerance) :
                resorted \in
                    {IF fuzzy_end - fuzzy_start > 1
                     THEN ReplaceSlice(names, fuzzy_start, fuzzy_end,
                            PanelOrderFrom(SubSeq(names, fuzzy_start + 1, fuzzy_end),
                                           location_dict, dim + 1, tolerance).names)
                     ELSE names}})
    ELSE FuzzyLoop(first_sorted, names, fuzzy_start, fuzzy_end + 1,
                   location_dict, dim, tolerance)

FuzzyTail(after, location_dict, dim, tolerance) ==
    [names |-> IF after[2] # Len(after[1]) - 1
               THEN ReplaceSlice(after[1], after[2], Len(after[1]),
                        PanelOrderFrom(SubSeq(after[1], after[2] + 1, Len(after[1])),
                                       location_dict, dim + 1, tolerance).names)
               ELSE after[1],
     err |-> "ok"]

(* location_dict of panel_order *)
LocationDict(st) ==
    [name \in Range(st.panelNames) |-> PanelUniversalTranslation(st, name)]

(* BasicPattern.panel_order() *)
PanelOrder(st) ==
    Only({PanelOrderFrom(st.panelNames, location_dict, 0, I(DefaultTolerance)) :
            location_dict \in {LocationDict(st)}})

----------------------------------------------------------------------------
(* Panel codec: encode *)

(* BasicPattern._edge_as_vector; vertices are the shifted vertices *)
EdgeAsVector(vertices, edge_dict) ==
    <<VSub(vertices[edge_dict.endpoints[2] + 1], vertices[edge_dict.endpoints[1] + 1])[1],
      VSub(vertices[edge_dict.endpoints[2] + 1], vertices[edge_dict.endpoints[1] + 1])[2],
      IF edge_dict.curvature # Absent THEN edge_dict.curvature[1] ELSE Zero,
      IF edge_dict.curvature # Absent THEN edge_dict.curvature[2] ELSE Zero>>

(* the 0-based positions of s whose element satisfies Test, in order *)
IdsWhere(s, Test(_)) ==
    SelectSeq([i \in DOMAIN s |-> i - 1], LAMBDA id : Test(s[id + 1]))

(* vertices - shift of every vertex *)
ShiftedBy(vertices, corner) == [i \in DOMAIN vertices |-> VSub(vertices[i], corner)]

(* on_ox_ids[origin_candidate] of panel_as_numeric, of the vertices        *)
(* shifted to the lower left corner of the bounding box                    *)
FirstOfLeastX(vertices, on_ox_ids) ==
    on_ox_ids[ArgMin([k \in DOMAIN on_ox_ids |-> vertices[on_ox_ids[k] + 1][1]]) + 1]

OriginOnBox(vertices) ==
    Only({FirstOfLeastX(vertices, on_ox_ids) :
            on_ox_ids \in {IdsWhere(vertices, LAMBDA v : IsClose(v[2], Zero))}})

(* the id of the vertex panel_as_numeric moves to the origin: among the    *)
(* vertices on the lower side of the bounding box, the first of least x    *)
OriginId(panel_vertices) ==
    Only({OriginOnBox(vertices) :
            vertices \in {ShiftedBy(panel_vertices, left_corner) :
                            left_corner \in {LowLeft(panel_vertices)}}})

(* the ids of the edges as they are listed in the panel *)
RotatedEdgeIds_AsListed(n, first_edge) == [i \in 1..n |-> i - 1]

(* rotated_edge_ids of panel_as_numeric: edge_ids[(n - first_edge):] +     *)
(* edge_ids[:(n - first_edge)], the new place of every old edge id         *)
RotatedEdgeIds(n, first_edge) ==
    SubSeq([i \in 1..n |-> i - 1], n - first_edge + 1, n)
        \o SubSeq([i \in 1..n |-> i - 1], 1, n - first_edge)

(* rotated_edges of panel_as_numeric *)
RotatedEdges(edges, first_edge) ==
    SubSeq(edges, first_edge + 1, Len(edges)) \o SubSeq(edges, 1, first_edge)

(* translation of panel_as_numeric: the panel's translation with the       *)
(* compensation - R . (shift, 0) for the change of the local origin        *)
CompensatedTranslation(panel, shift) ==
    VAdd(panel.translation,
         VNeg(MatVec(EulerMatrix(panel.rotation), <<shift[1], shift[2], Zero>>)))

(* pad_to_len=None *)
NoPad == -1

(* "Padding" of panel_as_numeric *)
Padded(edge_sequence, pad_to_len) ==
    IF pad_to_len = NoPad THEN edge_sequence
    ELSE [i \in 1..pad_to_len |->
            IF i <= Len(edge_sequence) THEN edge_sequence[i]
            ELSE <<Zero, Zero, Zero, Zero>>]

(* panel_as_numeric from "Edge in correct order" on: vertices are shifted  *)
(* to the origin vertex, shift is the sum of the two shifts, starts are    *)
(* the ids of the edges that start at the origin vertex                    *)
EncodeEdges(panel, vertices, shift, starts, pad_to_len) ==
    IF starts = <<>> THEN [err |-> "IndexError"]
    ELSE IF pad_to_len # NoPad /\ Len(panel.edges) > pad_to_len
    THEN [err |-> "ValueError"]
    ELSE [err |-> "ok",
          edges |-> Only({Padded([i \in DOMAIN rotated_edges |->
                                    EdgeAsVector(vertices, rotated_edges[i])], pad_to_len) :
                            rotated_edges \in {RotatedEdges(panel.edges, starts[1])}}),
          rotation |-> panel.rotation,
          translation |-> CompensatedTranslation(panel, shift),
          edge_ids |-> RotatedEdgeIds(Len(panel.edges), starts[1])]

(* panel_as_numeric from "Chose the new origin" on: on_box are the         *)
(* vertices after the shift by left_corner                                 *)
EncodeFromOrigin(panel, left_corner, on_box, origin_id, pad_to_len) ==
    Only({EncodeEdges(panel, vertices, shift, starts, pad_to_len) :
            vertices \in {ShiftedBy(on_box, on_box[origin_id + 1])},
            shift \in {VSub(VNeg(left_corner), on_box[origin_id + 1])},
            starts \in {IdsWhere(panel.edges, LAMBDA edge : edge.endpoints[1] = origin_id)}})

(* BasicPattern.panel_as_numeric *)
PanelAsNumeric(st, panel_name, pad_to_len) ==
    Only({EncodeFromOrigin(st.panels[panel_name], left_corner,
                           ShiftedBy(st.panels[panel_name].vertices, left_corner),
                           origin_id, pad_to_len) :
            left_corner \in {LowLeft(st.panels[panel_name].vertices)},
            origin_id \in {OriginId(st.panels[panel_name].vertices)}})

----------------------------------------------------------------------------
(* Pattern codec: encode *)

(* list.index: the 0-based position of x in s *)
IndexOf(s, x) == (CHOOSE i \in DOMAIN s : s[i] = x /\ \A j \in 1..(i - 1) : s[j] # x) - 1

MaxOf(S) == CHOOSE x \in S : \A y \in S : y <= x

(* the pattern-level edge id of a stitch side *)
FlatEdgeId(panel_id, max_len, edge_id) == panel_id * max_len + edge_id

(* max_len of pattern_as_tensors *)
MaxLen(st, pad_panels_to_len) ==
    IF pad_panels_to_len # NoPad THEN pad_panels_to_len
    ELSE MaxOf({Len(st.panels[name].edges) : name \in Range(st.panelNames)})

(* stitches_as_tags-free stitch array of pattern_as_tensors: the [2][S]    *)
(* array of pattern-level edge ids; encoded[i] is the encoding of panel    *)
(* panel_order[i], whose edge_ids are panel_edge_ids_map of it             *)
StitchesIndicies(stitches, panel_order, encoded, max_len) ==
    [id_side \in 1..2 |-> [idx \in DOMAIN stitches |->
        FlatEdgeId(IndexOf(panel_order, stitches[idx][id_side].panel),
                   max_len,
                   encoded[IndexOf(panel_order, stitches[idx][id_side].panel) + 1]
                        .edge_ids[stitches[idx][id_side].edge + 1])]]

(* the first error of the encodings, "ok" if there is none *)
FirstError(encoded) ==
    IF \A i \in DOMAIN encoded : encoded[i].err = "ok" THEN "ok"
    ELSE encoded[CHOOSE i \in DOMAIN encoded :
                    encoded[i].err # "ok" /\ \A j \in 1..(i - 1) : encoded[j].err = "ok"].err

(* pattern_as_tensors after its panel loop *)
PackTensors(st, panel_order, encoded, max_len) ==
    IF FirstError(encoded) # "ok" THEN [err |-> FirstError(encoded)]
    ELSE [err |-> "ok",
          panel_order |-> panel_order,
          max_len |-> max_len,
          panel_seqs |-> [i \in DOMAIN encoded |-> encoded[i].edges],
          panel_rotations |-> [i \in DOMAIN encoded |-> encoded[i].rotation],
          panel_translations |-> [i \in DOMAIN encoded |-> encoded[i].translation],
          stitches |-> StitchesIndicies(st.stitches, panel_order, encoded, max_len)]

(* pattern_as_tensors after self.panel_order(); order is its result *)
EncodeInOrder(st, order, max_len) ==
    IF order.err # "ok" THEN [err |-> order.err]
    ELSE Only({PackTensors(st, order.names, encoded, max_len) :
                encoded \in {[i \in DOMAIN order.names |->
                                PanelAsNumeric(st, order.names[i], max_len)]}})

(* BasicPattern.pattern_as_tensors(pad_panels_to_len, with_placement=True, *)
(* with_stitches=True): the panels in panel order, each encoded and padded *)
(* to max_len, and the stitches as a [2][S] array of pattern-level edge    *)
(* ids                                                                     *)
PatternAsTensors(st, pad_panels_to_len) ==
    Only({EncodeInOrder(st, order, max_len) :
            order \in {PanelOrder(st)}, max_len \in {MaxLen(st, pad_panels_to_len)}})

----------------------------------------------------------------------------
(* Parametric transform engine: edges *)

(* a value that is python's None in arithmetic raises TypeError; a list    *)
(* is <<"list", x, y>>, and the lazy map that _invert_value returns for a  *)
(* list is <<"map", f, x, y>>, f naming its function                       *)
MapValue(f, a, b) == <<"map", f, a, b>>
IsMap(value) == Len(value) = 4
IsNumber(value) == Len(value) = 2

(* panel['edges'][id] and panel['vertices'][idx] of its endpoints are      *)
(* there for every id of ids; python raises IndexError for one that is not *)
HasEdges(panel, ids) ==
    \A k \in DOMAIN ids :
        /\ ids[k] + 1 \in DOMAIN panel.edges
        /\ \A e \in 1..2 : panel.edges[ids[k] + 1].endpoints[e] + 1 \in DOMAIN panel.vertices

(* verts_ids of _meta_edge *)
MetaVertsIds(panel, edge_influence) ==
    IF edge_influence.is_list
    THEN <<panel.edges[edge_influence.id[1] + 1].endpoints[1]>>
            \o [k \in DOMAIN edge_influence.id |->
                    panel.edges[edge_influence.id[k] + 1].endpoints[2]]
    ELSE panel.edges[edge_influence.id[1] + 1].endpoints

(* verts_coords of _meta_edge *)
MetaVertsCoords(panel, verts_ids) ==
    [k \in DOMAIN verts_ids |-> panel.vertices[verts_ids[k] + 1]]

(* the extention line of _meta_edge before it is normalized *)
ExtentionLine(edge_influence, verts_coords) ==
    IF edge_influence.along # Absent THEN edge_influence.along
    ELSE VSub(verts_coords[Len(verts_coords)], verts_coords[1])

(* the end of _meta_edge: line is the extention line, norm its norm *)
NormalizedMetaEdge(verts_ids, verts_coords, line, norm) ==
    IF IsClose(norm, Zero) THEN [err |-> "ZeroDivisionError"]
    ELSE [err |-> "ok",
          verts_ids |-> verts_ids,
          verts_coords |-> verts_coords,
          target_line |-> VScale(RInv(norm), line),
          length |-> Dot(VScale(RInv(norm), line),
                         VSub(verts_coords[Len(verts_coords)], verts_coords[1]))]

MetaEdgeOfLine(verts_ids, verts_coords, line) ==
    Only({NormalizedMetaEdge(verts_ids, verts_coords, line, norm) : norm \in {Norm(line)}})

MetaEdgeOfVerts(edge_influence, verts_ids, verts_coords) ==
    Only({MetaEdgeOfLine(verts_ids, verts_coords, line) :
            line \in {ExtentionLine(edge_influence, verts_coords)}})

(* ParametrizedPattern._meta_edge: verts_ids, verts_coords, the unit       *)
(* target_line and the length along it, or the error raised                *)
MetaEdge(st, panel_name, edge_influence) ==
    IF panel_name \notin Range(st.panelNames) THEN [err |-> "KeyError"]
    ELSE IF ~HasEdges(st.panels[panel_name], edge_influence.id) THEN [err |-> "IndexError"]
    ELSE Only({MetaEdgeOfVerts(edge_influence, verts_ids,
                          MetaVertsCoords(st.panels[panel_name], verts_ids)) :
            verts_ids \in {MetaVertsIds(st.panels[panel_name], edge_influence)}})

(* a pivot at the other end of the chain for 'start' and 'end' *)
FixedPoint_Swapped(direction, verts_coords) ==
    CASE direction = "start" -> verts_coords[1]
      [] direction = "end" -> verts_coords[Len(verts_coords)]
      [] direction = "both" ->
            VScale(<<1, 2>>, VAdd(verts_coords[1], verts_coords[Len(verts_coords)]))

(* the extention pivot of _extend_edge *)
FixedPoint(direction, verts_coords) ==
    CASE direction = "end" -> verts_coords[1]
      [] direction = "start" -> verts_coords[Len(verts_coords)]
      [] direction = "both" ->
            VScale(<<1, 2>>, VAdd(verts_coords[1], verts_coords[Len(verts_coords)]))

(* verts_projection[i]: (verts_coords[i] - fixed).dot(target_line) * target_line *)
Projection(coord, fixed, target_line) ==
    VScale(Dot(VSub(coord, fixed), target_line), target_line)

(* a projection divided by its norm, unless the norm is close to zero *)
UnitProjection(projection) ==
    Only({IF IsClose(norm, Zero) THEN projection ELSE VScale(RInv(norm), projection) :
            norm \in {Norm(projection)}})

(* new_verts[i] of _extend_edge *)
NewVert(coord, projection, value, multiplicative) ==
    IF multiplicative THEN VSub(coord, VScale(RSub(One, value), projection))
    ELSE VAdd(coord, VScale(value, UnitProjection(projection)))

(* "update in the initial structure": vertex verts_ids[ni] becomes         *)
(* new_verts[ni], from ni on                                               *)
RECURSIVE MoveVerts(_, _, _, _)
MoveVerts(vertices, verts_ids, new_verts, ni) ==
    IF ni > Len(verts_ids) THEN vertices
    ELSE MoveVerts([vertices EXCEPT ![verts_ids[ni] + 1] = new_verts[ni]],
                   verts_ids, new_verts, ni + 1)

(* _extend_edge after its call of _meta_edge, whose result is meta *)
ExtendMetaEdge(st, panel_name, edge_influence, value, multiplicative, meta) ==
    IF meta.err # "ok" THEN Raise(st, meta.err)
    ELSE IF edge_influence.direction \notin {"end", "start", "both"}
    THEN Raise(st, "RuntimeError")
    ELSE IF ~IsNumber(value) THEN Raise(st, "TypeError")
    ELSE Only({Ok([st EXCEPT !.panels[panel_name].vertices =
                    MoveVerts(@, meta.verts_ids,
                        [i \in DOMAIN meta.verts_coords |->
                            NewVert(meta.verts_coords[i],
                                    Projection(meta.verts_coords[i], fixed, meta.target_line),
                                    value, multiplicative)], 1)]) :
                fixed \in {FixedPoint(edge_influence.direction, meta.verts_coords)}})

(* ParametrizedPattern._extend_edge *)
ExtendEdge(st, panel_name, edge_influence, value, multiplicative) ==
    IF IsList(value) THEN Raise(st, "ValueError")
    ELSE Only({ExtendMetaEdge(st, panel_name, edge_influence, value, multiplicative, meta) :
                meta \in {MetaEdge(st, panel_name, edge_influence)}})

(* ParametrizedPattern._curve_edge; edge is the id of the edge. A scaling  *)
(* factor that is not a list multiplies control[1]: by a number, or not at *)
(* all, which is the TypeError of a list times a map or None               *)
CurveEdge(st, panel_name, edge, scaling_factor) ==
    IF panel_name \notin Range(st.panelNames) THEN Raise(st, "KeyError")
    ELSE IF edge + 1 \notin DOMAIN st.panels[panel_name].edges THEN Raise(st, "IndexError")
    ELSE IF st.panels[panel_name].edges[edge + 1].curvature = Absent
    THEN Raise(st, "ValueError")
    ELSE IF IsList(scaling_factor)
    THEN Ok([st EXCEPT !.panels[panel_name].edges[edge + 1].curvature =
                <<RMul(@[1], scaling_factor[2]), RMul(@[2], scaling_factor[3])>>])
    ELSE IF IsNumber(scaling_factor)
    THEN Ok([st EXCEPT !.panels[panel_name].edges[edge + 1].curvature =
                <<@[1], RMul(@[2], scaling_factor)>>])
    ELSE Raise(st, "TypeError")

(* an inversion that takes the default for whatever it is given *)
InvertValue_OfDefault(value, multiplicative) == [err |-> "ok", value |-> One]

(* ParametrizedPattern._invert_value: the inverse, or the error raised;    *)
(* numpy's isclose of None raises TypeError, as does the minus of None     *)
InvertValue(value, multiplicative) ==
    IF multiplicative
    THEN IF IsList(value)
         THEN IF IsClose(value[2], Zero) \/ IsClose(value[3], Zero)
              THEN [err |-> "ZeroDivisionError", value |-> None]
              ELSE [err |-> "ok", value |-> MapValue("1 / x", value[2], value[3])]
         ELSE IF ~IsNumber(value) THEN [err |-> "TypeError", value |-> None]
         ELSE IF IsClose(value, Zero) THEN [err |-> "ZeroDivisionError", value |-> None]
         ELSE [err |-> "ok", value |-> RInv(value)]
    ELSE IF IsList(value)
         THEN [err |-> "ok", value |-> MapValue("-x", value[2], value[3])]
         ELSE IF ~IsNumber(value) THEN [err |-> "TypeError", value |-> None]
         ELSE [err |-> "ok", value |-> RNeg(value)]

----------------------------------------------------------------------------
(* Parametric transform engine: constraints *)

CPanel(st, ref) == st.constraints[ref[1]].influence[ref[2]].panel

(* the type check of a constraint; the message of its ValueError is a      *)
(* string plus a list, which raises TypeError                              *)
IsConstraintType(type) == type \in {"length_equality"}

(* the first loop of a length_equality constraint, from edge k of refs on: *)
(* the length of each (meta) edge is cached in edge['length']              *)
RECURSIVE MeasureEdges(_, _, _)
RECURSIVE MeasuredEdge(_, _, _, _)
MeasureEdges(st, refs, k) ==
    IF k > Len(refs) THEN Ok(st)
    ELSE Only({MeasuredEdge(st, refs, k, meta) :
                meta \in {MetaEdge(st, CPanel(st, refs[k]), CEdge(st, refs[k]))}})

MeasuredEdge(st, refs, k, meta) ==
    IF meta.err # "ok" THEN Raise(st, meta.err)
    ELSE Only({MeasureEdges(measured, refs, k + 1) :
                measured \in {SetCEdge(st, refs[k],
                                [CEdge(st, refs[k]) EXCEPT !.length = meta.length])}})

(* sum(target_len) / len(target_len) of the cached lengths *)
TargetLen(st, refs) ==
    RDiv(RSum([k \in DOMAIN refs |-> CEdge(st, refs[k]).length]), I(Len(refs)))

(* the second loop of a length_equality constraint, from edge k of refs    *)
(* on: an edge whose scaling is not close to 1 gets it as its value and is *)
(* extended by it                                                          *)
RECURSIVE ScaleEdges(_, _, _, _)
RECURSIVE ScaledEdge(_, _, _, _)
RECURSIVE ScaleEdge(_, _, _, _, _)
ScaleEdges(st, refs, k, target_len) ==
    IF k > Len(refs) THEN Ok(st)
    ELSE Only({ScaleEdge(st, refs, k, target_len, scaling) :
                scaling \in {RDiv(target_len, CEdge(st, refs[k]).length)}})

ScaleEdge(st, refs, k, target_len, scaling) ==
    IF IsClose(scaling, One) THEN ScaleEdges(st, refs, k + 1, target_len)
    ELSE Only({ScaledEdge(r, refs, k, target_len) :
                r \in {Only({ExtendEdge(valued, CPanel(valued, refs[k]),
                                        CEdge(valued, refs[k]), scaling, TRUE) :
                        valued \in {SetCEdge(st, refs[k],
                                        [CEdge(st, refs[k]) EXCEPT !.value = scaling])}})}})

ScaledEdge(r, refs, k, target_len) ==
    IF r.err # "ok" THEN r ELSE ScaleEdges(r.st, refs, k + 1, target_len)

(* one length_equality constraint with the edges refs; measured is the     *)
(* result of its first loop. done says whether _apply_constraints goes on  *)
(* to the next constraint: it returns when the constraint has no edge      *)
EqualizeMeasured(measured, refs) ==
    IF measured.err # "ok" THEN [st |-> measured.st, err |-> measured.err, done |-> TRUE]
    ELSE IF Len(refs) = 0 THEN [st |-> measured.st, err |-> "ok", done |-> TRUE]
    ELSE Only({[st |-> r.st, err |-> r.err, done |-> r.err # "ok"] :
                r \in {ScaleEdges(measured.st, refs, 1, TargetLen(measured.st, refs))}})

ApplyConstraint(st, constraint_n) ==
    IF ~IsConstraintType(st.constraints[constraint_n].type)
    THEN [st |-> st, err |-> "TypeError", done |-> TRUE]
    ELSE Only({EqualizeMeasured(MeasureEdges(st, refs, 1), refs) :
                refs \in {EdgeRefsOf(st, constraint_n)}})

(* the loop of _apply_constraints over self.spec['constraints'], from      *)
(* constraint k on                                                         *)
RECURSIVE ApplyConstraintsFrom(_, _)
RECURSIVE AppliedConstraint(_, _)
ApplyConstraintsFrom(st, k) ==
    IF k > Len(st.constraintNames) THEN Ok(st)
    ELSE Only({AppliedConstraint(r, k) : r \in {ApplyConstraint(st, st.constraintNames[k])}})

AppliedConstraint(r, k) ==
    IF r.done THEN [st |-> r.st, err |-> r.err] ELSE ApplyConstraintsFrom(r.st, k + 1)

(* ParametrizedPattern._apply_constraints *)
ApplyConstraints(st) ==
    IF ~st.hasConstraints THEN Ok(st) ELSE ApplyConstraintsFrom(st, 1)

(* the edge loops of _invert_constraints for one constraint, from edge k   *)
(* of refs on: each edge is extended by the inverse of its value, and its  *)
(* value becomes 1; an edge without the key 'value' is a KeyError          *)
RECURSIVE InvertEdges(_, _, _)
RECURSIVE InvertedEdge(_, _, _)
InvertEdge(st, ref, scaling) ==
    IF scaling.err # "ok" THEN Raise(st, scaling.err)
    ELSE ExtendEdge(st, CPanel(st, ref), CEdge(st, ref), scaling.value, TRUE)

InvertEdges(st, refs, k) ==
    IF k > Len(refs) THEN Ok(st)
    ELSE IF CEdge(st, refs[k]).value = Absent THEN Raise(st, "KeyError")
    ELSE Only({InvertedEdge(r, refs, k) :
                r \in {InvertEdge(st, refs[k], InvertValue(CEdge(st, refs[k]).value, TRUE))}})

InvertedEdge(r, refs, k) ==
    IF r.err # "ok" THEN r
    ELSE Only({InvertEdges(reset, refs, k + 1) :
                reset \in {SetCEdge(r.st, refs[k], [CEdge(r.st, refs[k]) EXCEPT !.value = One])}})

(* s as it is, for a loop that does not reverse *)
Reversed_Same(s) == s

(* s reversed *)
Reversed(s) == [i \in DOMAIN s |-> s[Len(s) + 1 - i]]

(* the loop of _invert_constraints over reversed(constraint_order), from   *)
(* place k of order on                                                     *)
RECURSIVE InvertConstraintsFrom(_, _, _)
RECURSIVE InvertedConstraint(_, _, _)
InvertConstraintsFrom(st, order, k) ==
    IF k > Len(order) THEN Ok(st)
    ELSE IF order[k] \notin DOMAIN st.constraints THEN Raise(st, "KeyError")
    ELSE IF ~IsConstraintType(st.constraints[order[k]].type) THEN Raise(st, "TypeError")
    ELSE Only({InvertedConstraint(r, order, k) :
                r \in {InvertEdges(st, EdgeRefsOf(st, order[k]), 1)}})

InvertedConstraint(r, order, k) ==
    IF r.err # "ok" THEN r ELSE InvertConstraintsFrom(r.st, order, k + 1)

(* ParametrizedPattern._invert_constraints *)
InvertConstraints(st) ==
    IF ~st.hasConstraints THEN Ok(st)
    ELSE IF st.constraint_order = Absent THEN Raise(st, "KeyError")
    ELSE InvertConstraintsFrom(st, Reversed(st.constraint_order), 1)

----------------------------------------------------------------------------
(* Parametric transform engine: parameters *)

PEdge(st, ref) == st.parameters[ref[1]].influence[ref[2]].edge_list[ref[3]]
PPanel(st, ref) == st.parameters[ref[1]].influence[ref[2]].panel

(* the edges of a parameter in the order of the loops over its influence *)
ParamEdgeRefs(st, parameter) ==
    InfluenceEdgeRefs(parameter, st.parameters[parameter].influence, 1)

(* self.parameter_defaults; the message of the ValueError for a type that  *)
(* is not a key of it is a string plus dict_keys, which raises TypeError   *)
ParameterTypes == {"length", "additive_length", "curve"}
ParameterDefault(type) == IF type = "additive_length" THEN Zero ELSE One

(* the body of the edge loop of _update_pattern_by_param_values *)
UpdateEdge(st, ref, param_type, value) ==
    CASE param_type = "length" -> ExtendEdge(st, PPanel(st, ref), PEdge(st, ref), value, TRUE)
      [] param_type = "additive_length" ->
            ExtendEdge(st, PPanel(st, ref), PEdge(st, ref), value, FALSE)
      [] param_type = "curve" -> CurveEdge(st, PPanel(st, ref), PEdge(st, ref), value)

(* the edits with an inverted value; inverse is the result of              *)
(* _invert_value, which is called before the edit it is an argument of     *)
UpdateByInverse(st, ref, param_type, inverse) ==
    IF inverse.err # "ok" THEN Raise(st, inverse.err)
    ELSE UpdateEdge(st, ref, param_type, inverse.value)

(* the body of the edge loop of _restore_template *)
RestoreEdge(st, ref, param_type, value) ==
    Only({UpdateByInverse(st, ref, param_type, inverse) :
            inverse \in {InvertValue(value, param_type # "additive_length")}})

(* the edge loops of one parameter, from place k of refs on; restoring     *)
(* says which of the two bodies is run                                     *)
RECURSIVE EditEdges(_, _, _, _, _, _)
RECURSIVE EditedEdge(_, _, _, _, _, _)
EditEdges(st, refs, k, param_type, value, restoring) ==
    IF k > Len(refs) THEN Ok(st)
    ELSE Only({EditedEdge(r, refs, k, param_type, value, restoring) :
                r \in {IF restoring THEN RestoreEdge(st, refs[k], param_type, value)
                       ELSE UpdateEdge(st, refs[k], param_type, value)}})

EditedEdge(r, refs, k, param_type, value, restoring) ==
    IF r.err # "ok" THEN r ELSE EditEdges(r.st, refs, k + 1, param_type, value, restoring)

(* the body of the parameter loop of _update_pattern_by_param_values *)
UpdateParameter(st, parameter) ==
    IF st.parameters[parameter].type \notin ParameterTypes THEN Raise(st, "TypeError")
    ELSE EditEdges(st, ParamEdgeRefs(st, parameter), 1,
                   st.parameters[parameter].type, st.parameters[parameter].value, FALSE)

(* "restore defaults" of _restore_template *)
ToDefault(parameter_spec) ==
    [parameter_spec EXCEPT !.value =
        IF IsList(@) THEN ListValue(ParameterDefault(parameter_spec.type),
                                    ParameterDefault(parameter_spec.type))
        ELSE ParameterDefault(parameter_spec.type)]

RestoredEdges(r, parameter, params_to_default) ==
    IF r.err # "ok" \/ ~params_to_default THEN r
    ELSE Ok([r.st EXCEPT !.parameters[parameter] = ToDefault(@)])

(* the body of the parameter loop of _restore_template *)
RestoreParameter(st, parameter, params_to_default) ==
    IF st.parameters[parameter].type \notin ParameterTypes THEN Raise(st, "TypeError")
    ELSE Only({RestoredEdges(r, parameter, params_to_default) :
                r \in {EditEdges(st, Reversed(ParamEdgeRefs(st, parameter)), 1,
                                 st.parameters[parameter].type,
                                 st.parameters[parameter].value, TRUE)}})

(* the parameter loops of _update_pattern_by_param_values (restoring       *)
(* FALSE, order is parameter_order) and of _restore_template (restoring    *)
(* TRUE, order is parameter_order reversed), from place k of order on      *)
RECURSIVE EditParameters(_, _, _, _, _)
RECURSIVE EditedParameter(_, _, _, _, _)
EditParameters(st, order, k, restoring, params_to_default) ==
    IF k > Len(order) THEN Ok(st)
    ELSE Only({EditedParameter(r, order, k, restoring, params_to_default) :
                r \in {IF restoring THEN RestoreParameter(st, order[k], params_to_default)
                       ELSE UpdateParameter(st, order[k])}})

EditedParameter(r, order, k, restoring, params_to_default) ==
    IF r.err # "ok" THEN r
    ELSE EditParameters(r.st, order, k + 1, restoring, params_to_default)

(* the call that follows a step of a method, when the step has not raised *)
UpdatedParameters(r) == IF r.err # "ok" THEN r ELSE ApplyConstraints(r.st)

(* ParametrizedPattern._update_pattern_by_param_values *)
UpdatePatternByParamValues(st) ==
    Only({UpdatedParameters(r) : r \in {EditParameters(st, st.parameter_order, 1, FALSE, FALSE)}})

InvertedConstraints(r, params_to_default) ==
    IF r.err # "ok" THEN r
    ELSE EditParameters(r.st, Reversed(r.st.parameter_order), 1, TRUE, params_to_default)

(* ParametrizedPattern._restore_template *)
RestoreTemplate(st, params_to_default) ==
    Only({InvertedConstraints(r, params_to_default) : r \in {InvertConstraints(st)}})

(* "set new values" of apply_param_list, from place k of parameter_order   *)
(* on: a parameter whose last value is a list takes as many of the values  *)
(* as it has, any other takes one; a value past the end is an IndexError   *)
RECURSIVE SetNewValues(_, _, _, _)
SetNewValues(st, values, k, value_count) ==
    IF k > Len(st.parameter_order) THEN Ok(st)
    ELSE IF IsList(st.parameters[st.parameter_order[k]].value)
    THEN IF value_count + 2 > Len(values) THEN Raise(st, "IndexError")
         ELSE Only({SetNewValues(valued, values, k + 1, value_count + 2) :
                valued \in {[st EXCEPT !.parameters[st.parameter_order[k]].value =
                                ListValue(values[value_count + 1], values[value_count + 2])]}})
    ELSE IF value_count + 1 > Len(values) THEN Raise(st, "IndexError")
         ELSE Only({SetNewValues(valued, values, k + 1, value_count + 1) :
                valued \in {[st EXCEPT !.parameters[st.parameter_order[k]].value =
                                values[value_count + 1]]}})

RestoredForValues(r, values) ==
    IF r.err # "ok" THEN r
    ELSE Only({IF valued.err # "ok" THEN valued ELSE UpdatePatternByParamValues(valued.st) :
                valued \in {SetNewValues(r.st, values, 1, 0)}})

(* ParametrizedPattern.apply_param_list *)
ApplyParamList(st, values) ==
    Only({RestoredForValues(r, values) : r \in {RestoreTemplate(st, FALSE)}})

----------------------------------------------------------------------------
(* The documents the model loads: a parametrized template of two panels.   *)
(* front is a 12 x 8 rectangle whose lower side is split at x = 4 and      *)
(* whose right side is curved; back is a 6 x 8 rectangle.                  *)

StraightEdge(a, b) == [endpoints |-> <<a, b>>, curvature |-> Absent]
CurvedEdge(a, b, cx, cy) == [endpoints |-> <<a, b>>, curvature |-> <<cx, cy>>]

FrontPanel ==
    [translation |-> <<I(0), I(20), I(10)>>, rotation |-> <<Zero, Zero, Zero>>,
     vertices |-> <<V2(0, 0), V2(4, 0), V2(12, 0), V2(12, 8), V2(0, 8)>>,
     edges |-> <<StraightEdge(0, 1), StraightEdge(1, 2),
                 CurvedEdge(2, 3, <<1, 2>>, <<1, 4>>),
                 StraightEdge(3, 4), StraightEdge(4, 0)>>]

BackPanel ==
    [translation |-> <<I(0), I(20), I(-10)>>, rotation |-> <<Zero, I(180), Zero>>,
     vertices |-> <<V2(0, 0), V2(6, 0), V2(6, 8), V2(0, 8)>>,
     edges |-> <<StraightEdge(0, 1), StraightEdge(1, 2),
                 StraightEdge(2, 3), StraightEdge(3, 0)>>]

(* an entry of an influence's edge_list; id holds the edge ids, and        *)
(* is_list says whether the document gives a list (a meta-edge) or one     *)
(* edge id; a constraint's entry also has value                            *)
EdgeInfluence(id, is_list, direction) ==
    [id |-> id, is_list |-> is_list, direction |-> direction, along |-> Absent]
ConstraintEdge(id, is_list, direction, value) ==
    [id |-> id, is_list |-> is_list, direction |-> direction, along |-> Absent,
     value |-> value, length |-> Absent]

Influence(panel, edge_list) == [panel |-> panel, edge_list |-> edge_list]

Parameter(type, value, range, influence) ==
    [type |-> type, value |-> value, range |-> range, influence |-> influence]

LengthEquality(influence) == [type |-> "length_equality", influence |-> influence]

(* the store after a load of a document with the two panels, the given     *)
(* parameters (in parameter_order) and constraints (in constraint_order)   *)
Document(cls, paramNames, parameters, constraintNames, constraints) ==
    [cls |-> cls,
     panelNames |-> <<"front", "back">>,
     panels |-> [n \in {"front", "back"} |-> IF n = "front" THEN FrontPanel ELSE BackPanel],
     stitches |-> <<<<[panel |-> "front", edge |-> 4], [panel |-> "back", edge |-> 1]>>>>,
     paramNames |-> paramNames, parameters |-> parameters,
     parameter_order |-> paramNames,
     hasConstraints |-> TRUE, constraintNames |-> constraintNames,
     constraints |-> constraints, constraint_order |-> constraintNames]

----------------------------------------------------------------------------
(* Decoding: panel_from_numeric and pattern_from_tensors on given tensors  *)

(* the longest edge sequence handed to panel_from_numeric *)
MaxRows == 3

Row(dx, dy, cx, cy) == <<I(dx), I(dy), cx, cy>>

(* rows of an edge tensor: long edges, an edge shorter than the pad        *)
(* tolerance, a pad row, a curved edge                                     *)
EdgeRows ==
    {Row(3, 0, Zero, Zero), Row(0, 3, Zero, Zero), Row(-3, 0, Zero, Zero),
     Row(0, -3, Zero, Zero), Row(1, 0, Zero, Zero), Row(0, 0, Zero, Zero),
     Row(-3, -3, <<1, 2>>, <<1, 4>>)}

SeqsUpTo(S, n) == UNION {[1..k -> S] : k \in 1..n}

EdgeSequences == SeqsUpTo(EdgeRows, MaxRows)

PadRow == Row(0, 0, Zero, Zero)

(* panel tensors of a pattern tensor, each padded to four rows: a square,  *)
(* a triangle, a panel with a short edge, an open chain, a slot of pads    *)
PanelTensors ==
    {<<Row(3, 0, Zero, Zero), Row(0, 3, Zero, Zero), Row(-3, 0, Zero, Zero), Row(0, -3, Zero, Zero)>>,
     <<Row(3, 0, Zero, Zero), Row(0, 3, Zero, Zero), Row(-3, -3, <<1, 2>>, <<1, 4>>), PadRow>>,
     <<Row(3, 0, Zero, Zero), Row(1, 0, Zero, Zero), Row(0, 3, Zero, Zero), Row(-3, -3, Zero, Zero)>>,
     <<Row(3, 0, Zero, Zero), Row(0, 3, Zero, Zero), PadRow, PadRow>>,
     <<PadRow, PadRow, PadRow, PadRow>>}

PatternTensors == [1..1 -> PanelTensors] \cup [1..2 -> PanelTensors]

(* stitch index arrays [2][S]: none given, S = 0, S = 1 *)
StitchArrays == {None, <<<<>>, <<>>>>, <<<<0>>, <<2>>>>}

Placements == {None, <<I(5), I(0), I(-5)>>}

(* the stores decoding starts from: an empty BasicPattern and loaded       *)
(* ParametrizedPatterns whose constraint was never applied (value as the   *)
(* document gives it, or no value key), was applied, or is invalidated     *)
DecodeDocument(pvalue, cvalue) ==
    Document("ParametrizedPattern",
        <<"width", "curve">>,
        [p \in {"width", "curve"} |->
            IF p = "width"
            THEN Parameter("length", pvalue, <<<<1, 2>>, I(2)>>,
                    <<Influence("front", <<EdgeInfluence(<<0, 1>>, TRUE, "end")>>)>>)
            ELSE Parameter("curve", IF pvalue = None THEN None ELSE ListValue(pvalue, pvalue),
                    <<<<<<1, 2>>, I(2)>>, <<<<1, 2>>, I(2)>>>>,
                    <<Influence("front", <<2>>)>>)],
        <<"tops">>,
        [c \in {"tops"} |-> LengthEquality(
            <<Influence("front", <<ConstraintEdge(<<3>>, FALSE, "end", cvalue)>>),
              Influence("back", <<ConstraintEdge(<<2>>, FALSE, "end", cvalue)>>)>>)])

DecodeStores ==
    {EmptyStore("BasicPattern"),
     DecodeDocument(One, One), DecodeDocument(I(2), <<3, 4>>),
     DecodeDocument(One, Absent), DecodeDocument(None, None)}

DecodeInit ==
    /\ store \in DecodeStores
    /\ pc = "ready"
    /\ io = [op |-> "none"]
    /\ backup = store

(* the call returns or raises r.err, and leaves the object as r.st *)
DirectUpdate(call, r) ==
    /\ store' = r.st
    /\ pc' = IF r.err = "ok" THEN "returned" ELSE "raised"
    /\ io' = [call EXCEPT !.err = r.err]
    /\ UNCHANGED backup

(* one call of panel_from_numeric *)
DecodePanel ==
    /\ pc = "ready"
    /\ \E panel_name \in {"panel_0", "front"}, edge_sequence \in EdgeSequences,
          placement \in Placements, padded \in BOOLEAN :
        \E r \in {PanelFromNumeric(store, panel_name, edge_sequence,
                                    placement, placement, padded)} :
            DirectUpdate([op |-> "panel_from_numeric", panel_name |-> panel_name,
                          edge_sequence |-> edge_sequence, padded |-> padded,
                          err |-> "ok"], r)

(* one call of pattern_from_tensors *)
DecodePattern ==
    /\ pc = "ready"
    /\ \E pattern_representation \in PatternTensors, stitches \in StitchArrays,
          padded \in BOOLEAN :
        \E r \in {PatternFromTensors(store, pattern_representation, None, None,
                                      stitches, padded)} :
            DirectUpdate([op |-> "pattern_from_tensors",
                          pattern_representation |-> pattern_representation,
                          stitches |-> stitches, padded |-> padded, err |-> "ok"], r)

DecodeNext == DecodePanel \/ DecodePattern

SpecDecode == DecodeInit /\ [][DecodeNext]_vars

----------------------------------------------------------------------------
(* Claims about decoding *)

(* python's edge['endpoints'] of the edge with id i *)
Endpoints(panel, i) == panel.edges[i + 1].endpoints

(* the edges of a panel form one closed loop: each edge ends where the     *)
(* next starts and the last one ends at vertex 0                           *)
IsClosedLoop(panel) ==
    LET n == Len(panel.edges)
    IN  /\ n > 0
        /\ \A i \in 0..(n - 2) : Endpoints(panel, i)[2] = Endpoints(panel, i + 1)[1]
        /\ Endpoints(panel, n - 1)[2] = 0

(* C1: after panel_from_numeric returns for a non-empty edge sequence, the *)
(* panel's edges form one closed loop, whether or not the XY offsets sum   *)
(* to zero.                                                                *)
C1_DecodedLoopClosed ==
    (pc = "returned" /\ io.op = "panel_from_numeric")
        => IsClosedLoop(store.panels[io.panel_name])

AllValuesNull(st) ==
    /\ \A p \in DOMAIN st.parameters : st.parameters[p].value = None
    /\ \A k \in DOMAIN ConstraintEdgeRefs(st) :
            CEdge(st, ConstraintEdgeRefs(st)[k]).value = None

(* C4: after pattern_from_tensors or panel_from_numeric returns on a       *)
(* ParametrizedPattern, every parameter value and every constraint edge    *)
(* value is null.                                                          *)
C4_DecodeInvalidatesValues ==
    (pc = "returned" /\ store.cls = "ParametrizedPattern") => AllValuesNull(store)

(* a pattern_from_tensors that returned on a pattern whose parameter and   *)
(* constraint values were all set before the call                          *)
C4_Witness ==
    /\ pc = "returned"
    /\ io.op = "pattern_from_tensors"
    /\ store.cls = "ParametrizedPattern"
    /\ \A p \in DOMAIN backup.parameters : backup.parameters[p].value \notin {None, Absent}
    /\ \A k \in DOMAIN ConstraintEdgeRefs(backup) :
            CEdge(backup, ConstraintEdgeRefs(backup)[k]).value \notin {None, Absent}

(* C29: every panel of the store after panel_from_numeric or               *)
(* pattern_from_tensors, returned or raised, has at least one vertex and   *)
(* one edge, also when a padded panel slot has only rows within 1.5 of     *)
(* zero.                                                                   *)
C29_NoEmptyPanelStored ==
    (pc \in {"returned", "raised"} /\ io.op \in {"panel_from_numeric", "pattern_from_tensors"})
        => \A name \in Range(store.panelNames) :
            /\ Len(store.panels[name].vertices) >= 1
            /\ Len(store.panels[name].edges) >= 1

----------------------------------------------------------------------------
(* Round trips: encode a loaded pattern, decode the tensors into it *)

(* the largest pad length asked of the encoders *)
MaxPad == 5

ChainEdges(n) == [i \in 1..n |-> StraightEdge(i - 1, i % n)]

(* panel shapes: a square; a square given from its upper right corner and  *)
(* away from the origin; a triangle with a curved side; a 6 x 1 strip,     *)
(* two of whose edges are shorter than the pad tolerance; a square whose   *)
(* vertex ids are not in chain order                                       *)
Shapes ==
    {[vertices |-> <<V2(0, 0), V2(6, 0), V2(6, 6), V2(0, 6)>>, edges |-> ChainEdges(4)],
     [vertices |-> <<V2(3, 3), V2(-3, 3), V2(-3, -3), V2(3, -3)>>, edges |-> ChainEdges(4)],
     [vertices |-> <<V2(4, 6), V2(0, 0), V2(8, 0)>>,
      edges |-> <<StraightEdge(0, 1), StraightEdge(1, 2), CurvedEdge(2, 0, <<1, 2>>, <<1, 4>>)>>],
     [vertices |-> <<V2(0, 0), V2(6, 0), V2(6, 1), V2(0, 1)>>, edges |-> ChainEdges(4)],
     [vertices |-> <<V2(0, 0), V2(6, 6), V2(6, 0), V2(0, 6)>>,
      edges |-> <<StraightEdge(0, 2), StraightEdge(2, 1), StraightEdge(1, 3), StraightEdge(3, 0)>>]}

(* placements <<rotation, translation>> *)
ShapePlacements ==
    {<<<<Zero, Zero, Zero>>, <<I(0), I(20), I(10)>>>>,
     <<<<Zero, I(180), Zero>>, <<I(2), I(20), I(-10)>>>>,
     <<<<I(90), Zero, I(90)>>, <<I(30), I(0), I(0)>>>>}

PlacedPanels ==
    {[translation |-> pl[2], rotation |-> pl[1], vertices |-> sh.vertices, edges |-> sh.edges] :
        sh \in Shapes, pl \in ShapePlacements}

Side(panel, edge) == [panel |-> panel, edge |-> edge]

(* the loaded patterns: one panel or two, in either insertion order, with  *)
(* one stitch                                                              *)
LoadedPatterns ==
    {[EmptyStore("BasicPattern") EXCEPT
        !.panelNames = <<"front">>,
        !.panels = [n \in {"front"} |-> f],
        !.stitches = <<<<Side("front", 0), Side("front", 2)>>>>] : f \in PlacedPanels}
    \cup
    {[EmptyStore("BasicPattern") EXCEPT
        !.panelNames = names,
        !.panels = [n \in {"front", "back"} |-> IF n = "front" THEN f ELSE b],
        !.stitches = <<<<Side("front", e[1]), Side("back", e[2])>>>>] :
        names \in {<<"front", "back">>, <<"back", "front">>},
        f \in PlacedPanels, b \in PlacedPanels, e \in {<<0, 0>>, <<1, 2>>, <<2, 1>>}}

RoundTripInit ==
    /\ store \in LoadedPatterns
    /\ pc = "ready"
    /\ io = [op |-> "none"]
    /\ backup = store

(* the call returns r or raises r.err: an encoder's result is kept in io,  *)
(* a decoder's is the object itself                                        *)
Encoded(call, r, ok_pc) ==
    /\ pc' = IF r.err = "ok" THEN ok_pc ELSE "raised"
    /\ io' = [call EXCEPT !.out = r]
    /\ UNCHANGED <<store, backup>>

Decoded(r, ok_pc) ==
    /\ store' = r.st
    /\ pc' = IF r.err = "ok" THEN ok_pc ELSE "raised"
    /\ UNCHANGED <<io, backup>>

(* panel_as_numeric(panel_name, pad_to_len) *)
EncodePanel ==
    /\ pc = "ready"
    /\ \E panel_name \in Range(store.panelNames), pad_to_len \in 3..MaxPad :
        \E r \in {PanelAsNumeric(store, panel_name, pad_to_len)} :
            Encoded([op |-> "panel_as_numeric", panel_name |-> panel_name,
                     pad_to_len |-> pad_to_len, out |-> None], r, "panel_encoded")

(* panel_from_numeric(panel_name, edges, rotation, translation, padded=True) *)
(* on the result of panel_as_numeric                                       *)
DecodeEncodedPanel ==
    /\ pc = "panel_encoded"
    /\ \E r \in {PanelFromNumeric(store, io.panel_name, io.out.edges, io.out.rotation,
                                   io.out.translation, TRUE)} :
            Decoded(r, "panel_decoded")

(* pattern_as_tensors(pad_panels_to_len, with_placement=True, with_stitches=True) *)
EncodePattern ==
    /\ pc = "ready"
    /\ \E pad_panels_to_len \in {NoPad} \cup 3..MaxPad :
        \E r \in {PatternAsTensors(store, pad_panels_to_len)} :
            Encoded([op |-> "pattern_as_tensors", pad_panels_to_len |-> pad_panels_to_len,
                     out |-> None], r, "pattern_encoded")

(* pattern_from_tensors(tensor, rotations, translations, stitches, padded=True) *)
(* on the result of pattern_as_tensors                                     *)
DecodeEncodedPattern ==
    /\ pc = "pattern_encoded"
    /\ \E r \in {PatternFromTensors(store, io.out.panel_seqs, io.out.panel_rotations,
                                     io.out.panel_translations, io.out.stitches, TRUE)} :
            Decoded(r, "pattern_decoded")

RoundTripNext == EncodePanel \/ DecodeEncodedPanel \/ EncodePattern \/ DecodeEncodedPattern

SpecRoundTrip == RoundTripInit /\ [][RoundTripNext]_vars

----------------------------------------------------------------------------
(* Claims about round trips *)

(* the world position of a local point of a panel *)
World(panel, local_coord) ==
    PointIn3D(local_coord, EulerMatrix(panel.rotation), panel.translation)

(* the canonical origin of a panel: of the vertices of least y, the first  *)
(* of least x (its 0-based id)                                             *)
CanonicalOrigin(panel) ==
    LET IsLower(i, j) ==
            \/ RLt(panel.vertices[i][2], panel.vertices[j][2])
            \/ /\ panel.vertices[i][2] = panel.vertices[j][2]
               /\ RLt(panel.vertices[i][1], panel.vertices[j][1])
    IN  (CHOOSE i \in DOMAIN panel.vertices :
            /\ \A j \in DOMAIN panel.vertices : ~IsLower(j, i)
            /\ \A j \in 1..(i - 1) : IsLower(i, j)) - 1

(* the 0-based id of the k-th edge (k from 0) of a closed panel read from  *)
(* its canonical origin along the chain                                    *)
RECURSIVE ChainEdgeId(_, _)
ChainEdgeId(panel, k) ==
    LET start == IF k = 0 THEN CanonicalOrigin(panel)
                 ELSE Endpoints(panel, ChainEdgeId(panel, k - 1))[2]
    IN  (CHOOSE i \in DOMAIN panel.edges : panel.edges[i].endpoints[1] = start) - 1

(* an edge as geometry: its vector, its curvature (none is zero) and the   *)
(* world positions of its two ends                                         *)
EdgeGeometry(panel, edge_id) ==
    LET edge == panel.edges[edge_id + 1]
        from == panel.vertices[edge.endpoints[1] + 1]
        to == panel.vertices[edge.endpoints[2] + 1]
    IN  [vector |-> VSub(to, from),
         curvature |-> IF edge.curvature = Absent THEN <<Zero, Zero>> ELSE edge.curvature,
         from |-> World(panel, from),
         to |-> World(panel, to)]

HasEdge(panel, edge_id) ==
    /\ edge_id + 1 \in DOMAIN panel.edges
    /\ \A e \in 1..2 : panel.edges[edge_id + 1].endpoints[e] + 1 \in DOMAIN panel.vertices

(* decoded is original read from its canonical origin, in the same place *)
SamePanel(original, decoded) ==
    /\ Len(decoded.vertices) = Len(original.vertices)
    /\ Len(decoded.edges) = Len(original.edges)
    /\ \A k \in 0..(Len(original.edges) - 1) :
        /\ HasEdge(decoded, k)
        /\ decoded.edges[k + 1].endpoints[1] = k
        /\ EdgeGeometry(decoded, k) = EdgeGeometry(original, ChainEdgeId(original, k))

(* C2: for every closed panel of N edges in chain order and every pad_len  *)
(* >= N, panel_from_numeric(panel_as_numeric(panel, pad_len), padded=True) *)
(* returns a panel of N vertices and N edges whose edge vectors and        *)
(* curvatures are those of the original read from the canonical origin,    *)
(* every vertex at its world position of before.                           *)
C2_PanelRoundTrip ==
    (io.op = "panel_as_numeric" /\ pc \in {"panel_decoded", "raised"}
        /\ io.pad_to_len >= Len(backup.panels[io.panel_name].edges))
        => /\ pc = "panel_decoded"
           /\ SamePanel(backup.panels[io.panel_name], store.panels[io.panel_name])

(* C3: after pattern_as_tensors and pattern_from_tensors(padded=True) the  *)
(* stitches are as many and paired as before, and each decoded side        *)
(* (panel_p, e) is the same geometric edge as the original side: p is the  *)
(* place of the original panel in the panel order, e the place of the      *)
(* original edge in the origin-rotated edge sequence.                      *)
C3_StitchIdentity ==
    (io.op = "pattern_as_tensors" /\ pc \in {"pattern_decoded", "raised"}
        /\ io.out.err = "ok")
        => /\ pc = "pattern_decoded"
           /\ Len(store.stitches) = Len(backup.stitches)
           /\ \A idx \in DOMAIN backup.stitches : \A side \in 1..2 :
                LET original == backup.stitches[idx][side]
                    decoded == store.stitches[idx][side]
                IN  /\ decoded.panel = PanelName(IndexOf(io.out.panel_order, original.panel))
                    /\ decoded.panel \in Range(store.panelNames)
                    /\ HasEdge(store.panels[decoded.panel], decoded.edge)
                    /\ ChainEdgeId(backup.panels[original.panel], decoded.edge) = original.edge
                    /\ EdgeGeometry(store.panels[decoded.panel], decoded.edge)
                        = EdgeGeometry(backup.panels[original.panel], original.edge)

----------------------------------------------------------------------------
(* Parametric edits of a loaded template *)

(* the template's parameters: width scales the lower side of front (the    *)
(* meta-edge of its two edges), hem adds to the lower side of back, curve  *)
(* scales the curvature of the right side of front                         *)
TemplateParameters(direction, curve_value) ==
    [p \in {"width", "hem", "curve"} |->
        CASE p = "width" ->
                Parameter("length", One, <<<<1, 2>>, I(2)>>,
                    <<Influence("front", <<EdgeInfluence(<<0, 1>>, TRUE, direction)>>)>>)
          [] p = "hem" ->
                Parameter("additive_length", Zero, <<I(-8), I(2)>>,
                    <<Influence("back", <<EdgeInfluence(<<0>>, FALSE, direction)>>)>>)
          [] p = "curve" ->
                Parameter("curve", curve_value,
                    IF IsList(curve_value) THEN <<<<<<1, 2>>, I(2)>>, <<<<1, 2>>, I(2)>>>>
                    ELSE <<<<1, 2>>, I(2)>>,
                    <<Influence("front", <<2>>)>>)]

(* the template's constraint, one of: the upper sides of front and back    *)
(* (12 and 6 long, no common vertex); the two edges of the lower side of   *)
(* front (4 and 8 long, with a common vertex); the lower and the upper     *)
(* side of back (both 6 long)                                              *)
TemplateConstraint(constraint_n, direction) ==
    CASE constraint_n = "tops" ->
            LengthEquality(
                <<Influence("front", <<ConstraintEdge(<<3>>, FALSE, direction, One)>>),
                  Influence("back", <<ConstraintEdge(<<2>>, FALSE, direction, One)>>)>>)
      [] constraint_n = "bottoms" ->
            LengthEquality(
                <<Influence("front", <<ConstraintEdge(<<0>>, FALSE, direction, One),
                                       ConstraintEdge(<<1>>, FALSE, direction, One)>>)>>)
      [] constraint_n = "sides" ->
            LengthEquality(
                <<Influence("back", <<ConstraintEdge(<<0>>, FALSE, direction, One),
                                      ConstraintEdge(<<2>>, FALSE, direction, One)>>)>>)

Directions == {"start", "end", "both"}

(* the loaded templates: at template defaults, with one constraint or with *)
(* no 'constraints' in the spec                                            *)
Templates ==
    {Document("ParametrizedPattern", <<"width", "hem", "curve">>,
              TemplateParameters(direction, curve_value),
              <<constraint_n>>,
              [c \in {constraint_n} |-> TemplateConstraint(constraint_n, direction)]) :
        direction \in Directions, curve_value \in {One, ListValue(One, One)},
        constraint_n \in {"tops", "bottoms", "sides"}}
    \cup
    {[Document("ParametrizedPattern", <<"width", "hem", "curve">>,
               TemplateParameters(direction, curve_value), <<>>, EmptyDict)
        EXCEPT !.hasConstraints = FALSE, !.constraint_order = Absent] :
        direction \in Directions, curve_value \in {One, ListValue(One, One)}}

(* the values handed to apply_param_list: every one is admissible, the     *)
(* factors are not zero and the addition is within the range of hem        *)
WidthValues == {<<1, 2>>, I(2), I(-1)}
HemValues == {I(-8), I(-6), I(-3), I(2)}
CurveValues == {<<1, 2>>, I(2)}

(* the value lists in param_values_list() form for the template st *)
ValueLists(st) ==
    IF IsList(st.parameters["curve"].value)
    THEN {<<w, h, cx, cy>> : w \in WidthValues, h \in HemValues,
                             cx \in CurveValues, cy \in CurveValues}
    ELSE {<<w, h, c>> : w \in WidthValues, h \in HemValues, c \in CurveValues}

ParamInit ==
    /\ store \in Templates
    /\ pc = "template"
    /\ io = [op |-> "none"]
    /\ backup = store

(* the method called returns or raises r.err and leaves the object as r.st *)
Edited(call, r, ok_pc) ==
    /\ store' = r.st
    /\ pc' = IF r.err = "ok" THEN ok_pc ELSE "raised"
    /\ io' = [call EXCEPT !.err = r.err]
    /\ UNCHANGED backup

(* apply_param_list(values) on the template *)
ApplyValues ==
    /\ pc = "template"
    /\ \E values \in ValueLists(store) :
        \E r \in {ApplyParamList(store, values)} :
            Edited([op |-> "apply_param_list", values |-> values, err |-> "ok"], r, "applied")

(* _restore_template() after apply_param_list *)
RestoreApplied ==
    /\ pc = "applied"
    /\ \E r \in {RestoreTemplate(store, TRUE)} :
            Edited([op |-> "_restore_template", values |-> io.values, err |-> "ok"],
                   r, "restored")

(* _apply_constraints() on the template *)
Constrain ==
    /\ pc = "template"
    /\ \E r \in {ApplyConstraints(store)} :
            Edited([op |-> "_apply_constraints", err |-> "ok"], r, "constrained")

(* _invert_constraints() after _apply_constraints *)
InvertConstrained ==
    /\ pc = "constrained"
    /\ \E r \in {InvertConstraints(store)} :
            Edited([op |-> "_invert_constraints", err |-> "ok"], r, "inverted")

ParamNext == ApplyValues \/ RestoreApplied \/ Constrain \/ InvertConstrained

SpecParam == ParamInit /\ [][ParamNext]_vars

----------------------------------------------------------------------------
(* Claims about parametric edits *)

Tolerance == <<1, 1000000>>
WithinTolerance(a, b) == RLe(RAbs(RSub(a, b)), Tolerance)

(* every vertex and every curvature of every panel of st is where the      *)
(* template has it                                                         *)
SameGeometry(template, st) ==
    \A name \in Range(template.panelNames) :
        /\ Len(st.panels[name].vertices) = Len(template.panels[name].vertices)
        /\ \A v \in DOMAIN template.panels[name].vertices : \A d \in 1..2 :
                WithinTolerance(st.panels[name].vertices[v][d],
                                template.panels[name].vertices[v][d])
        /\ \A e \in DOMAIN template.panels[name].edges :
            /\ (st.panels[name].edges[e].curvature = Absent)
                    = (template.panels[name].edges[e].curvature = Absent)
            /\ template.panels[name].edges[e].curvature # Absent
                => \A d \in 1..2 :
                        WithinTolerance(st.panels[name].edges[e].curvature[d],
                                        template.panels[name].edges[e].curvature[d])

(* C5: starting at template defaults, apply_param_list(v) followed by      *)
(* _restore_template runs through for every admissible value list v and    *)
(* returns every vertex position and every curvature value to its template *)
(* value.                                                                  *)
C5_TransformsReversible ==
    io.op \in {"apply_param_list", "_restore_template"}
        => /\ pc # "raised"
           /\ pc = "restored" => SameGeometry(backup, store)

(* the length of the (meta) edge ref of a constraint: the distance from    *)
(* its first to its last vertex                                            *)
ChordLength(st, ref) ==
    LET panel == st.panels[CPanel(st, ref)]
        coords == MetaVertsCoords(panel, MetaVertsIds(panel, CEdge(st, ref)))
    IN  Norm(VSub(coords[Len(coords)], coords[1]))

MeanLength(st, refs) ==
    RDiv(RSum([k \in DOMAIN refs |-> ChordLength(st, refs[k])]), I(Len(refs)))

(* C6: _apply_constraints followed by _invert_constraints restores the     *)
(* original length of every edge and meta-edge the length_equality         *)
(* constraints refer to, also when an edge had the target length already   *)
(* and when referenced edges share a vertex.                               *)
C6_ConstraintsInvertible ==
    io.op \in {"_apply_constraints", "_invert_constraints"}
        => /\ pc # "raised"
           /\ pc = "inverted"
                => \A k \in DOMAIN ConstraintEdgeRefs(backup) :
                        WithinTolerance(ChordLength(store, ConstraintEdgeRefs(backup)[k]),
                                        ChordLength(backup, ConstraintEdgeRefs(backup)[k]))

(* C7: after _apply_constraints all the edges and meta-edges of one        *)
(* length_equality constraint have the same length, the mean of their      *)
(* lengths before the constraint was applied, also when two of them share  *)
(* a vertex.                                                               *)
C7_ConstraintEqualizesLengths ==
    pc = "constrained"
        => \A c \in Range(backup.constraintNames) :
            \A k \in DOMAIN EdgeRefsOf(backup, c) :
                WithinTolerance(ChordLength(store, EdgeRefsOf(backup, c)[k]),
                                MeanLength(backup, EdgeRefsOf(backup, c)))

----------------------------------------------------------------------------
(* Checks: self-intersection of panels *)

(* BasicPattern._control_to_abs_coord *)
ControlToAbsCoord(start, end, control_scale) ==
    Only({VAdd(VAdd(start, VScale(control_scale[1], edge)),
               VScale(control_scale[2], <<RNeg(edge[2]), edge[1]>>)) :
            edge \in {VSub(end, start)}})

(* ccw of _is_segm_intersecting *)
Ccw(start, end, point) ==
    RSub(RMul(RSub(end[1], start[1]), RSub(point[2], start[2])),
         RMul(RSub(point[1], start[1]), RSub(end[2], start[2])))

(* the first line of _is_segm_intersecting with the comparison of the      *)
(* products with 0 turned around: segments that touch are reported         *)
IsSegmIntersecting_Touching(segment1, segment2) ==
    ~ \/ RLt(Zero, RMul(Ccw(segment1[1], segment1[2], segment2[1]),
                        Ccw(segment1[1], segment1[2], segment2[2])))
      \/ RLt(Zero, RMul(Ccw(segment2[1], segment2[2], segment1[1]),
                        Ccw(segment2[1], segment2[2], segment1[2])))

(* BasicPattern._is_segm_intersecting *)
IsSegmIntersecting(segment1, segment2) ==
    ~ \/ RLe(Zero, RMul(Ccw(segment1[1], segment1[2], segment2[1]),
                        Ccw(segment1[1], segment1[2], segment2[2])))
      \/ RLe(Zero, RMul(Ccw(segment2[1], segment2[2], segment1[1]),
                        Ccw(segment2[1], segment2[2], segment1[2])))

(* the segments _is_panel_self_intersecting makes of one edge: a curved    *)
(* edge is viewed as two segments through its control point                *)
EdgeSegments(panel, edge) ==
    LET start == panel.vertices[edge.endpoints[1] + 1]
        end == panel.vertices[edge.endpoints[2] + 1]
    IN  IF edge.curvature # Absent
        THEN Only({<<<<start, curv_abs>>, <<curv_abs, end>>>> :
                    curv_abs \in {ControlToAbsCoord(start, end, edge.curvature)}})
        ELSE <<<<start, end>>>>

(* edge_list of _is_panel_self_intersecting, from edge k of the panel on *)
RECURSIVE EdgeListFrom(_, _)
EdgeListFrom(panel, k) ==
    IF k > Len(panel.edges) THEN <<>>
    ELSE EdgeSegments(panel, panel.edges[k]) \o EdgeListFrom(panel, k + 1)

(* the pairwise checks of _is_panel_self_intersecting *)
AnyPairIntersecting(edge_list) ==
    \E i1 \in DOMAIN edge_list : \E i2 \in (i1 + 1)..Len(edge_list) :
        IsSegmIntersecting(edge_list[i1], edge_list[i2])

(* BasicPattern._is_panel_self_intersecting *)
IsPanelSelfIntersecting(st, panel_name) ==
    \E edge_list \in {EdgeListFrom(st.panels[panel_name], 1)} :
        AnyPairIntersecting(edge_list)

(* BasicPattern.is_self_intersecting *)
IsSelfIntersecting(st) ==
    \E panel_name \in Range(st.panelNames) : IsPanelSelfIntersecting(st, panel_name)

----------------------------------------------------------------------------
(* Self-intersection checks of loaded patterns *)

MaxCoord == 2

GridPoints == {V2(x, y) : x \in 0..MaxCoord, y \in 0..MaxCoord}

(* the quadrilaterals with corners on the grid, convex or not, crossing    *)
(* or touching themselves or not                                           *)
GridPanels ==
    {[panel_spec_template EXCEPT !.vertices = <<a, b, c, d>>, !.edges = ChainEdges(4)] :
        a \in {V2(0, 0), V2(1, 1)}, b \in GridPoints, c \in GridPoints, d \in GridPoints}

(* a triangle one side of which bends across another *)
BentPanel ==
    [panel_spec_template EXCEPT
        !.vertices = <<V2(0, 0), V2(4, 0), V2(0, 4)>>,
        !.edges = <<StraightEdge(0, 1), StraightEdge(1, 2),
                    CurvedEdge(2, 0, <<1, 2>>, I(-1))>>]

(* the loaded patterns: one quadrilateral; or a panel with a curved edge   *)
(* alone, or next to a quadrilateral that crosses itself or does not       *)
CheckedPatterns ==
    {SetPanel(EmptyStore("BasicPattern"), "front", f) : f \in GridPanels}
    \cup
    {SetPanel(st, "back", b) :
        st \in {EmptyStore("BasicPattern")}
                \cup {SetPanel(EmptyStore("BasicPattern"), "front",
                        [panel_spec_template EXCEPT
                            !.vertices = <<V2(0, 0), vb, V2(2, 2), vd>>,
                            !.edges = ChainEdges(4)]) :
                        vb \in {V2(2, 0), V2(0, 2)}, vd \in {V2(2, 0), V2(0, 2)}},
        b \in {FrontPanel, BentPanel}}

SegmInit ==
    /\ store \in CheckedPatterns
    /\ pc = "ready"
    /\ io = [op |-> "none"]
    /\ backup = store

(* is_self_intersecting() *)
CheckPattern ==
    /\ pc = "ready"
    /\ pc' = "checked"
    /\ io' = [op |-> "is_self_intersecting", out |-> IsSelfIntersecting(store)]
    /\ UNCHANGED <<store, backup>>

(* _is_segm_intersecting(segment1, segment2) on two segments of a panel's  *)
(* edge list, in either order                                              *)
CheckSegments ==
    /\ pc = "ready"
    /\ \E panel_name \in Range(store.panelNames) :
        \E edge_list \in {EdgeListFrom(store.panels[panel_name], 1)} :
            \E i1 \in DOMAIN edge_list, i2 \in DOMAIN edge_list :
                /\ i1 # i2
                /\ io' = [op |-> "_is_segm_intersecting",
                          segment1 |-> edge_list[i1], segment2 |-> edge_list[i2],
                          out |-> IsSegmIntersecting(edge_list[i1], edge_list[i2])]
    /\ pc' = "checked"
    /\ UNCHANGED <<store, backup>>

SegmNext == CheckPattern \/ CheckSegments

SpecSegm == SegmInit /\ [][SegmNext]_vars

----------------------------------------------------------------------------
(* Claims about the self-intersection checks *)

Cross2(u, v) == RSub(RMul(u[1], v[2]), RMul(u[2], v[1]))

(* the segments cross at a point interior to both: the point               *)
(* a[1] + t * (a[2] - a[1]) = b[1] + u * (b[2] - b[1]) with 0 < t, u < 1    *)
CrossInside(a, b) ==
    LET da == VSub(a[2], a[1])
        db == VSub(b[2], b[1])
        w == VSub(b[1], a[1])
        den == Cross2(da, db)
        t == RDiv(Cross2(w, db), den)
        u == RDiv(Cross2(w, da), den)
    IN  /\ den # Zero
        /\ RLt(Zero, t) /\ RLt(t, One)
        /\ RLt(Zero, u) /\ RLt(u, One)

AllStraight(st) ==
    \A name \in Range(st.panelNames) :
        \A e \in DOMAIN st.panels[name].edges : st.panels[name].edges[e].curvature = Absent

(* the segments of the straight edges of a panel *)
StraightSegments(panel) ==
    [e \in DOMAIN panel.edges |->
        <<panel.vertices[panel.edges[e].endpoints[1] + 1],
          panel.vertices[panel.edges[e].endpoints[2] + 1]>>]

SomeEdgesCross(st) ==
    \E name \in Range(st.panelNames) :
        \E e1, e2 \in DOMAIN st.panels[name].edges :
            /\ e1 # e2
            /\ CrossInside(StraightSegments(st.panels[name])[e1],
                           StraightSegments(st.panels[name])[e2])

(* C8: for panels of straight edges is_self_intersecting is true iff some  *)
(* panel has two edges that cross at a point interior to both; segments    *)
(* that share or touch at an endpoint or are collinear are not reported;   *)
(* the result for two segments does not depend on their order.             *)
C8_SelfIntersectionIsProperCrossing ==
    /\ (io.op = "is_self_intersecting" /\ AllStraight(store))
            => (io.out <=> SomeEdgesCross(store))
    /\ io.op = "_is_segm_intersecting"
            => /\ io.out <=> CrossInside(io.segment1, io.segment2)
               /\ io.out <=> IsSegmIntersecting(io.segment2, io.segment1)

(* a bowtie is reported *)
C8_Witness ==
    /\ io.op = "is_self_intersecting"
    /\ store.panelNames = <<"front">>
    /\ store.panels["front"].vertices = <<V2(0, 0), V2(2, 2), V2(2, 0), V2(0, 2)>>
    /\ io.out

----------------------------------------------------------------------------
(* Ordering the panels of two patterns that hold the same panels *)

(* where a panel is placed: apart or within the tolerance of one another   *)
(* in x, and in front or at the back                                       *)
OrderPlacements ==
    {<<I(0), I(20), I(10)>>, <<I(3), I(20), I(-10)>>,
     <<I(3), I(0), I(10)>>, <<I(10), I(20), I(10)>>}

SquarePanel(translation) ==
    [translation |-> translation, rotation |-> <<Zero, Zero, Zero>>,
     vertices |-> <<V2(0, 0), V2(6, 0), V2(6, 6), V2(0, 6)>>, edges |-> ChainEdges(4)]

(* the orders in which the names can be inserted *)
InsertionOrders(names) ==
    {order \in [1..Cardinality(names) -> names] : Range(order) = names}

(* store and backup are two pattern objects with the same panels, each     *)
(* with its own insertion order                                            *)
OrderInit ==
    /\ \E names \in SUBSET {"front", "back", "sleeve"} :
        /\ names # {}
        /\ \E panels \in [names -> {SquarePanel(t) : t \in OrderPlacements}] :
            \E first \in InsertionOrders(names), second \in InsertionOrders(names) :
                /\ store = [EmptyStore("BasicPattern") EXCEPT
                                !.panelNames = first, !.panels = panels]
                /\ backup = [EmptyStore("BasicPattern") EXCEPT
                                !.panelNames = second, !.panels = panels]
    /\ pc = "ready"
    /\ io = [op |-> "none"]

(* panel_order() on the first pattern *)
OrderPanels ==
    /\ pc = "ready"
    /\ pc' = "ordered"
    /\ io' = [op |-> "panel_order", out |-> PanelOrder(store)]
    /\ UNCHANGED <<store, backup>>

(* panel_order() on the first pattern once more *)
OrderPanelsAgain ==
    /\ pc = "ordered"
    /\ pc' = "ordered_again"
    /\ io' = [op |-> "panel_order", out |-> io.out, again |-> PanelOrder(store)]
    /\ UNCHANGED <<store, backup>>

(* panel_order() on the second pattern *)
OrderOtherPattern ==
    /\ pc = "ordered"
    /\ pc' = "ordered_other"
    /\ io' = [op |-> "panel_order", out |-> io.out, other |-> PanelOrder(backup)]
    /\ UNCHANGED <<store, backup>>

OrderNext == OrderPanels \/ OrderPanelsAgain \/ OrderOtherPattern

SpecOrder == OrderInit /\ [][OrderNext]_vars

----------------------------------------------------------------------------
(* Claims about the panel orderer *)

(* C9: panel_order does not depend on the order in which the panels were   *)
(* inserted: two patterns that hold the same panels get the same result,   *)
(* and a second call on an unmodified pattern gives the same result.       *)
C9_PanelOrderDeterministic ==
    /\ pc = "ordered_again" => io.again = io.out
    /\ pc = "ordered_other" => io.other = io.out

(* three panels, two of them at one place, inserted in two orders none of  *)
(* which is the sorted one                                                 *)
C9_Witness ==
    /\ pc = "ordered_other"
    /\ Len(store.panelNames) = 3
    /\ store.panelNames # backup.panelNames
    /\ store.panels["front"] = store.panels["back"]
    /\ io.out.err = "ok"
    /\ io.out.names \notin {store.panelNames, backup.panelNames}

----------------------------------------------------------------------------
(* Randomization *)

(* the least size of a new value *)
MinValue == <<1, 100>>

(* a value that is left as it was drawn *)
NewValue_AsDrawn(param_range, u) ==
    RAdd(param_range[1], RMul(RSub(param_range[2], param_range[1]), u))

(* ParametrizedPattern._new_value; u is the number in [0, 1] that          *)
(* random.uniform draws: its value is a + (b - a) * u                      *)
NewValue(param_range, u) ==
    Only({IF RLt(RAbs(value), MinValue)
          THEN (IF RLt(value, Zero) THEN RNeg(MinValue) ELSE MinValue)
          ELSE value :
            value \in {RAdd(param_range[1], RMul(RSub(param_range[2], param_range[1]), u))}})

(* ParametrizedPattern._randomize_parameters from parameter k on; draws[p] *)
(* are the numbers drawn for parameter p, of which a parameter with one    *)
(* value takes the first                                                   *)
RECURSIVE RandomizeParametersFrom(_, _, _)
RandomizeParametersFrom(st, draws, k) ==
    IF k > Len(st.paramNames) THEN st
    ELSE LET parameter == st.paramNames[k]
             param_ranges == st.parameters[parameter].range
         IN  RandomizeParametersFrom(
                [st EXCEPT !.parameters[parameter].value =
                    IF IsList(st.parameters[parameter].value)
                    THEN ListValue(NewValue(param_ranges[1], draws[parameter][1]),
                                   NewValue(param_ranges[2], draws[parameter][2]))
                    ELSE NewValue(param_ranges, draws[parameter][1])],
                draws, k + 1)

RandomizeParameters(st, draws) == RandomizeParametersFrom(st, draws, 1)

(* ParametrizedPattern._restore: the spec is a deep copy of backup_copy *)
Restore(st, backup_copy) == backup_copy

(* the trials of _randomize_pattern: for _ in range(100) *)
MaxTrials == 100

(* a loop that stays at the trial it is at *)
NextTrial_Same(trial) == trial

(* the next trial of the loop *)
NextTrial(trial) == trial + 1

----------------------------------------------------------------------------
(* Randomizing a loaded template *)

(* the parameters of the template: hem adds to the lower side of back,     *)
(* curve scales the curvature of the right side of front                   *)
RandomizedParameters(direction) ==
    [p \in {"hem", "curve"} |->
        IF p = "hem"
        THEN Parameter("additive_length", Zero, <<I(-8), I(8)>>,
                <<Influence("back", <<EdgeInfluence(<<0>>, FALSE, direction)>>)>>)
        ELSE Parameter("curve", One, <<<<1, 2>>, I(2)>>, <<Influence("front", <<2>>)>>)]

RandomizedTemplates ==
    {[Document("ParametrizedPattern", <<"hem", "curve">>,
               RandomizedParameters(direction), <<>>, EmptyDict)
        EXCEPT !.hasConstraints = FALSE, !.constraint_order = Absent] :
        direction \in {"start", "end"}}

(* the numbers random.uniform can draw from, as parts of the range *)
Draws == {Zero, <<1, 2>>, One}

(* the draws of one _randomize_parameters call *)
DrawsFor(st) ==
    {draws \in [Range(st.paramNames) -> Draws \X Draws] :
        \A p \in Range(st.paramNames) :
            ~IsList(st.parameters[p].value) => draws[p][2] = draws[p][1]}

RandInit ==
    /\ store \in RandomizedTemplates
    /\ pc = "ready"
    /\ io = [op |-> "none"]
    /\ backup = store

(* self._randomize_parameters(); self._update_pattern_by_param_values()    *)
(* on the object st, at the given trial of the loop                        *)
Randomized(st, trial) ==
    \E draws \in DrawsFor(st) :
        \E randomized \in {RandomizeParameters(st, draws)} :
          \E r \in {UpdatePatternByParamValues(randomized)} :
            /\ store' = r.st
            /\ pc' = IF r.err = "ok" THEN "loop" ELSE "raised"
            /\ io' = [op |-> "_randomize_pattern", trial |-> trial, err |-> r.err]

(* _randomize_pattern() up to its loop: the template is restored and       *)
(* copied to spec_backup, then the first parameters are drawn and applied  *)
BeginRandomize ==
    /\ pc = "ready"
    /\ \E r \in {RestoreTemplate(store, FALSE)} :
        IF r.err # "ok"
        THEN /\ store' = r.st
             /\ pc' = "raised"
             /\ io' = [op |-> "_randomize_pattern", trial |-> 0, err |-> r.err]
             /\ UNCHANGED backup
        ELSE /\ backup' = r.st
             /\ Randomized(r.st, 0)

(* a trial of the loop whose check passes: break, and the method returns *)
CheckPasses ==
    /\ pc = "loop"
    /\ io.trial < MaxTrials
    /\ ~IsSelfIntersecting(store)
    /\ pc' = "returned"
    /\ UNCHANGED <<store, io, backup>>

(* a trial of the loop whose check fails: spec_backup is restored, new     *)
(* parameters are drawn and applied                                        *)
Retry ==
    /\ pc = "loop"
    /\ io.trial < MaxTrials
    /\ IsSelfIntersecting(store)
    /\ Randomized(Restore(store, backup), NextTrial(io.trial))
    /\ UNCHANGED backup

(* the loop is at its end: the method returns *)
TrialsExhausted ==
    /\ pc = "loop"
    /\ io.trial >= MaxTrials
    /\ pc' = "returned"
    /\ UNCHANGED <<store, io, backup>>

RandNext == BeginRandomize \/ CheckPasses \/ Retry \/ TrialsExhausted

SpecRand == RandInit /\ [][RandNext]_vars

(* the method is one sequential call: a step that can be taken is taken *)
SpecRandFair == SpecRand /\ WF_vars(RandNext)

----------------------------------------------------------------------------
(* Claims about randomization *)

(* C10: _randomize_pattern always terminates: it returns as soon as a      *)
(* self-intersection check passes, and else after at most 100 retries,     *)
(* whatever the checks give; the pattern it returns then may still be      *)
(* self-intersecting.  (A call whose edit raises ends with the error.)     *)
C10_RandomizeTerminates ==
    /\ <>(pc \in {"returned", "raised"})
    /\ [](io.op = "_randomize_pattern" => io.trial <= MaxTrials)
    /\ [](pc = "returned" => (~IsSelfIntersecting(store) \/ io.trial = MaxTrials))
    /\ [][(pc = "loop" /\ io.trial < MaxTrials /\ ~IsSelfIntersecting(store))
            => pc' = "returned"]_vars

(* the method returns after its last retry with a pattern that is          *)
(* self-intersecting                                                       *)
C10_Witness ==
    /\ pc = "returned"
    /\ io.trial = MaxTrials
    /\ IsSelfIntersecting(store)

----------------------------------------------------------------------------
(* Claims about calls that raise *)

(* the vertices, curvatures, parameter values and constraint values of st *)
EditableState(st) ==
    [panels |-> [n \in Range(st.panelNames) |->
                    [vertices |-> st.panels[n].vertices,
                     curvatures |-> [e \in DOMAIN st.panels[n].edges |->
                                        st.panels[n].edges[e].curvature]]],
     parameters |-> [p \in Range(st.paramNames) |-> st.parameters[p].value],
     constraints |-> [k \in DOMAIN ConstraintEdgeRefs(st) |->
                        CEdge(st, ConstraintEdgeRefs(st)[k]).value]]

(* C11: when apply_param_list raises, the pattern's vertices, curvatures,  *)
(* parameter values and constraint values are the same as before the call. *)
C11_FailedApplyLeavesPattern ==
    (io.op = "apply_param_list" /\ pc = "raised")
        => EditableState(store) = EditableState(backup)

(* C12: pattern_from_tensors called with stitches and padded = False       *)
(* raises, and the pattern's panels and stitches are the same as before    *)
(* the call.                                                               *)
C12_UnpaddedStitchesFailFast ==
    (io.op = "pattern_from_tensors" /\ ~io.padded
        /\ io.stitches # None /\ Len(io.stitches[1]) > 0)
        => /\ pc = "raised"
           /\ store.panelNames = backup.panelNames
           /\ store.panels = backup.panels
           /\ store.stitches = backup.stitches

----------------------------------------------------------------------------
(* Claims about padding *)

(* the rows of edge_sequence up to its last row that is not a pad row *)
WithoutTrailingPad(edge_sequence) ==
    SubSeq(edge_sequence, 1,
           MaxOf({0} \cup {k \in DOMAIN edge_sequence : ~IsPadRow(edge_sequence[k])}))

(* C19: panel_from_numeric with padded = True removes only the trailing    *)
(* pad rows of the edge sequence: every row before the last row that is    *)
(* not within 1.5 of zero becomes an edge, in its place.                   *)
C19_PaddingDropsOnlyTrailingRows ==
    (pc = "returned" /\ io.op = "panel_from_numeric" /\ io.padded)
        => LET rows == WithoutTrailingPad(io.edge_sequence)
               panel == store.panels[io.panel_name]
           IN  /\ Len(panel.edges) = Len(rows)
               /\ \A k \in 1..(Len(rows) - 1) :
                    VSub(panel.vertices[panel.edges[k].endpoints[2] + 1],
                         panel.vertices[panel.edges[k].endpoints[1] + 1])
                        = XY(rows[k])

----------------------------------------------------------------------------
(* Claims about curve parameters *)

(* the curvature of the edge the template's curve parameter influences *)
CurveOf(st) == st.panels["front"].edges[3].curvature

(* C15: a curve parameter with a 2-element list value [vx, vy] multiplies  *)
(* the curvature X by vx and Y by vy when it is applied, and restoring the *)
(* template afterwards completes without error and returns the curvature   *)
(* to its template value; a scalar value changes only Y.                   *)
(* (A call that ends with the ZeroDivisionError of an edge that hem has    *)
(* collapsed is no case of this claim.)                                    *)
C15_ListCurveReversible ==
    (io.op \in {"apply_param_list", "_restore_template"} /\ io.err # "ZeroDivisionError")
        => /\ pc # "raised"
           /\ (pc = "applied" /\ IsList(store.parameters["curve"].value))
                => CurveOf(store) = <<RMul(CurveOf(backup)[1], io.values[3]),
                                      RMul(CurveOf(backup)[2], io.values[4])>>
           /\ (pc = "applied" /\ ~IsList(store.parameters["curve"].value))
                => CurveOf(store) = <<CurveOf(backup)[1],
                                      RMul(CurveOf(backup)[2], io.values[3])>>
           /\ pc = "restored" => CurveOf(store) = CurveOf(backup)

----------------------------------------------------------------------------
(* Edits of one edge: _extend_edge on a template *)

(* the template without parameters and constraints *)
PlainTemplate ==
    [Document("ParametrizedPattern", <<>>, EmptyDict, <<>>, EmptyDict)
        EXCEPT !.hasConstraints = FALSE, !.constraint_order = Absent]

(* the edges and meta-edges edited: the first edge of the lower side of    *)
(* front, the whole lower side (two edges on one line), the curved right   *)
(* side, the lower and right side of back (a chain around a corner, from   *)
(* (0,0) to (6,8)), the left side of back                                  *)
ExtendedEdges ==
    {[panel |-> "front", id |-> <<0>>, is_list |-> FALSE],
     [panel |-> "front", id |-> <<0, 1>>, is_list |-> TRUE],
     [panel |-> "front", id |-> <<2>>, is_list |-> FALSE],
     [panel |-> "back", id |-> <<0, 1>>, is_list |-> TRUE],
     [panel |-> "back", id |-> <<3>>, is_list |-> FALSE]}

(* 'middle' is no direction of the engine *)
GivenDirections == Directions \cup {"middle"}

ExtendValues == {I(2), <<1, 2>>, I(-1), Zero}

ExtendInit ==
    /\ store = PlainTemplate
    /\ pc = "template"
    /\ io = [op |-> "none"]
    /\ backup = store

(* _extend_edge(panel_name, edge_influence, value, multiplicative) *)
ExtendCall ==
    /\ pc = "template"
    /\ \E edge \in ExtendedEdges, direction \in GivenDirections,
          value \in ExtendValues, multiplicative \in BOOLEAN :
        \E r \in {ExtendEdge(store, edge.panel,
                              EdgeInfluence(edge.id, edge.is_list, direction),
                              value, multiplicative)} :
            Edited([op |-> "_extend_edge", panel_name |-> edge.panel,
                    edge_influence |-> EdgeInfluence(edge.id, edge.is_list, direction),
                    value |-> value, multiplicative |-> multiplicative, err |-> "ok"],
                   r, "extended")

ExtendNext == ExtendCall

SpecExtend == ExtendInit /\ [][ExtendNext]_vars

----------------------------------------------------------------------------
(* Claims about _extend_edge *)

(* the positions in st of the vertices that the chain of the call has in   *)
(* the template, from the chain's start vertex to its end vertex           *)
ChainCoords(st) ==
    MetaVertsCoords(st.panels[io.panel_name],
                    MetaVertsIds(backup.panels[io.panel_name], io.edge_influence))

ChainStart(st) == ChainCoords(st)[1]
ChainEnd(st) == ChainCoords(st)[Len(ChainCoords(st))]

(* the length of the chain of st along the target line of the template:    *)
(* the unit vector from the chain's start vertex to its end vertex         *)
LengthAlongTarget(st) ==
    LET chord == VSub(ChainEnd(backup), ChainStart(backup))
    IN  Dot(VSub(ChainEnd(st), ChainStart(st)), VScale(RInv(Norm(chord)), chord))

(* C14: _extend_edge with a multiplicative value v multiplies the length   *)
(* of the edge or meta-edge along its target line by v and holds one point *)
(* fixed: the chain's end vertex for direction 'start', its start vertex   *)
(* for 'end', the midpoint of the two for 'both'; any other direction is   *)
(* an error.                                                               *)
C14_LengthScalesAboutFixedPoint ==
    (io.op = "_extend_edge" /\ io.multiplicative)
        => IF io.edge_influence.direction \in {"start", "end", "both"}
           THEN /\ pc = "extended"
                /\ LengthAlongTarget(store) = RMul(io.value, LengthAlongTarget(backup))
                /\ io.edge_influence.direction = "start" => ChainEnd(store) = ChainEnd(backup)
                /\ io.edge_influence.direction = "end" => ChainStart(store) = ChainStart(backup)
                /\ io.edge_influence.direction = "both"
                    => VAdd(ChainStart(store), ChainEnd(store))
                        = VAdd(ChainStart(backup), ChainEnd(backup))
           ELSE pc = "raised"

(* the chain around the corner of back was doubled with direction 'start': *)
(* its start vertex has moved                                              *)
C14_Witness ==
    /\ pc = "extended"
    /\ io.op = "_extend_edge"
    /\ io.multiplicative
    /\ io.value = I(2)
    /\ io.panel_name = "back"
    /\ io.edge_influence.is_list
    /\ io.edge_influence.direction = "start"
    /\ ChainStart(store) # ChainStart(backup)

(* the place of a point along the target line of the template *)
AlongTarget(coord) ==
    LET chord == VSub(ChainEnd(backup), ChainStart(backup))
    IN  Dot(coord, VScale(RInv(Norm(chord)), chord))

(* C28: _extend_edge with an additive value v changes the length of the    *)
(* edge or meta-edge along its target line by exactly v for each of the    *)
(* directions start, end and both; it moves only vertices that are not at  *)
(* the fixed point; the interior vertices of a meta-edge keep their order  *)
(* along the line.                                                         *)
C28_AdditiveLengthAddsValue ==
    (io.op = "_extend_edge" /\ ~io.multiplicative
        /\ io.edge_influence.direction \in {"start", "end", "both"})
        => /\ pc = "extended"
           /\ LengthAlongTarget(store) = RAdd(LengthAlongTarget(backup), io.value)
           /\ \A i \in DOMAIN ChainCoords(backup) :
                ChainCoords(store)[i] # ChainCoords(backup)[i]
                    => ChainCoords(backup)[i]
                            # FixedPoint(io.edge_influence.direction, ChainCoords(backup))
           /\ \A i, j \in 2..(Len(ChainCoords(backup)) - 1) :
                RLt(AlongTarget(ChainCoords(backup)[i]), AlongTarget(ChainCoords(backup)[j]))
                    => RLt(AlongTarget(ChainCoords(store)[i]), AlongTarget(ChainCoords(store)[j]))

----------------------------------------------------------------------------
(* Restoring a pattern whose stored values are given: the pattern holds a  *)
(* document as it was written, with the values of its parameters and of    *)
(* its constraint edges                                                    *)

(* the values a document stores: for the factors width and curve and for   *)
(* the constraint edge zero or two, for the addition hem zero or two       *)
StoredFactors == {Zero, I(2)}
StoredCurves == StoredFactors \cup {ListValue(I(2), I(2)), ListValue(Zero, I(2))}

(* the document with the stored values; idle says that width has an empty  *)
(* edge_list, constrained that the spec has the constraint 'tops', whose   *)
(* first edge has the value edge_value                                     *)
StoredDocument(width, hem, curve, idle, constrained, edge_value) ==
    [Document("ParametrizedPattern", <<"width", "hem", "curve">>,
        [TemplateParameters("end", curve) EXCEPT
            !["width"].value = width,
            !["width"].influence[1].edge_list = IF idle THEN <<>> ELSE @,
            !["hem"].value = hem],
        IF constrained THEN <<"tops">> ELSE <<>>,
        IF constrained
        THEN [c \in {"tops"} |->
                [TemplateConstraint("tops", "end") EXCEPT
                    !.influence[1].edge_list[1].value = edge_value]]
        ELSE EmptyDict)
     EXCEPT !.hasConstraints = constrained,
            !.constraint_order = IF constrained THEN @ ELSE Absent]

StoredDocuments ==
    {StoredDocument(width, hem, curve, idle, TRUE, edge_value) :
        width \in StoredFactors, hem \in StoredFactors, curve \in StoredCurves,
        idle \in BOOLEAN, edge_value \in StoredFactors}
    \cup
    {StoredDocument(width, hem, curve, idle, FALSE, One) :
        width \in StoredFactors, hem \in StoredFactors, curve \in StoredCurves,
        idle \in BOOLEAN}

(* a value list for apply_param_list on st: every value is two *)
TwoForEach(st) ==
    IF IsList(st.parameters["curve"].value) THEN <<I(2), I(2), I(2), I(2)>>
    ELSE <<I(2), I(2), I(2)>>

StoredInit ==
    /\ store \in StoredDocuments
    /\ pc = "stored"
    /\ io = [op |-> "none"]
    /\ backup = store

(* _restore_template(params_to_default) on the stored pattern *)
RestoreStored ==
    /\ pc = "stored"
    /\ \E params_to_default \in BOOLEAN :
        \E r \in {RestoreTemplate(store, params_to_default)} :
            Edited([op |-> "_restore_template", params_to_default |-> params_to_default,
                    err |-> "ok"], r, "restored")

(* apply_param_list(values) on the stored pattern *)
ApplyStored ==
    /\ pc = "stored"
    /\ \E r \in {ApplyParamList(store, TwoForEach(store))} :
            Edited([op |-> "apply_param_list", values |-> TwoForEach(store), err |-> "ok"],
                   r, "applied")

StoredNext == RestoreStored \/ ApplyStored

SpecStored == StoredInit /\ [][StoredNext]_vars

----------------------------------------------------------------------------
(* Claims about stored zero values *)

IsZeroValue(value) ==
    IF IsList(value) THEN value[2] = Zero \/ value[3] = Zero ELSE value = Zero

(* st has a length or curve parameter with an edge and the value zero, or  *)
(* a constraint edge with the value zero                                   *)
HasZeroFactor(st) ==
    \/ \E p \in Range(st.paramNames) :
            /\ st.parameters[p].type \in {"length", "curve"}
            /\ ParamEdgeRefs(st, p) # <<>>
            /\ IsZeroValue(st.parameters[p].value)
    \/ \E k \in DOMAIN ConstraintEdgeRefs(st) :
            CEdge(st, ConstraintEdgeRefs(st)[k]).value = Zero

(* C13: _restore_template, also as the first step of apply_param_list,     *)
(* raises ZeroDivisionError whenever a length or curve parameter with at   *)
(* least one edge, or a constraint edge, has the stored value zero; the    *)
(* value zero of an additive_length parameter never raises it.             *)
C13_ZeroFactorRaisesDivisionByZero ==
    io.op \in {"_restore_template", "apply_param_list"}
        => (io.err = "ZeroDivisionError") = HasZeroFactor(backup)

----------------------------------------------------------------------------
(* apply_param_list step by step: each action is one edit of the call, in  *)
(* the order in which the method's loops run them; io.log lists the edits  *)
(* the call has made, pc is the loop the call is in                        *)

(* a template whose parameter width has two influences, the second with    *)
(* two edges: the lower side of front, the lower and the upper side of     *)
(* back; hem adds to the upper side of front                               *)
StepParameters ==
    [p \in {"width", "hem", "curve"} |->
        CASE p = "width" ->
                Parameter("length", One, <<<<1, 2>>, I(2)>>,
                    <<Influence("front", <<EdgeInfluence(<<0, 1>>, TRUE, "end")>>),
                      Influence("back", <<EdgeInfluence(<<0>>, FALSE, "end"),
                                          EdgeInfluence(<<2>>, FALSE, "end")>>)>>)
          [] p = "hem" ->
                Parameter("additive_length", Zero, <<I(-8), I(2)>>,
                    <<Influence("front", <<EdgeInfluence(<<3>>, FALSE, "end")>>)>>)
          [] p = "curve" ->
                Parameter("curve", One, <<<<1, 2>>, I(2)>>, <<Influence("front", <<2>>)>>)]

StepTemplates ==
    {Document("ParametrizedPattern", <<"width", "hem", "curve">>, StepParameters,
              <<"tops">>, [c \in {"tops"} |-> TemplateConstraint("tops", "end")]),
     [Document("ParametrizedPattern", <<"width", "hem", "curve">>, StepParameters,
               <<>>, EmptyDict)
        EXCEPT !.hasConstraints = FALSE, !.constraint_order = Absent]}

StepValues == {<<w, h, I(2)>> : w \in {I(2), <<1, 2>>}, h \in {I(2), I(-3)}}

(* the calls of apply_param_list made on one pattern *)
MaxCalls == 2

(* the edges of the parameters of order, in the order the nested loops of  *)
(* _restore_template (restoring) or _update_pattern_by_param_values visit  *)
(* them, from place k of order on                                          *)
RECURSIVE EditPlan(_, _, _, _)
EditPlan(st, order, k, restoring) ==
    IF k > Len(order) THEN <<>>
    ELSE (IF restoring THEN Reversed(ParamEdgeRefs(st, order[k]))
          ELSE ParamEdgeRefs(st, order[k]))
            \o EditPlan(st, order, k + 1, restoring)

(* the edits of the loop of _restore_template and of the loop of           *)
(* _update_pattern_by_param_values                                         *)
InversePlan(st) == EditPlan(st, Reversed(st.parameter_order), 1, TRUE)
ForwardPlan(st) == EditPlan(st, st.parameter_order, 1, FALSE)

StepInit ==
    /\ store \in StepTemplates
    /\ pc = "template"
    /\ io = [op |-> "none", calls |-> 0]
    /\ backup = store

(* the step has run: the object is r.st, the log has the step, and the     *)
(* call goes on at next_pc with the edits todo, or has raised              *)
Stepped(r, step, ref, next_pc, todo) ==
    /\ store' = r.st
    /\ pc' = IF r.err = "ok" THEN next_pc ELSE "raised"
    /\ io' = [io EXCEPT !.err = r.err, !.todo = todo,
                        !.log = Append(@, [step |-> step, ref |-> ref])]
    /\ UNCHANGED backup

(* apply_param_list(values) is called; backup keeps the pattern as it is   *)
(* at the call                                                             *)
CallApply ==
    /\ pc \in {"template", "applied"}
    /\ io.calls < MaxCalls
    /\ \E values \in StepValues :
        io' = [op |-> "apply_param_list", calls |-> io.calls + 1, values |-> values,
               err |-> "ok", todo |-> <<>>, log |-> <<>>]
    /\ pc' = "_invert_constraints"
    /\ backup' = store
    /\ UNCHANGED store

(* self._invert_constraints() of _restore_template *)
StepInvertConstraints ==
    /\ pc = "_invert_constraints"
    /\ \E r \in {InvertConstraints(store)} :
        \E todo \in {InversePlan(r.st)} :
            Stepped(r, "_invert_constraints", <<>>,
                    IF todo = <<>> THEN "set new values" ELSE "_restore_template", todo)

(* one edit of the loops of _restore_template *)
StepInverse ==
    /\ pc = "_restore_template"
    /\ \E ref \in {Head(io.todo)} :
        \E r \in {RestoreEdge(store, ref, store.parameters[ref[1]].type,
                               store.parameters[ref[1]].value)} :
            Stepped(r, "inverse", ref,
                    IF Tail(io.todo) = <<>> THEN "set new values" ELSE "_restore_template",
                    Tail(io.todo))

(* "set new values" of apply_param_list *)
StepAssign ==
    /\ pc = "set new values"
    /\ \E r \in {SetNewValues(store, io.values, 1, 0)} :
        \E todo \in {ForwardPlan(r.st)} :
            Stepped(r, "assign", <<>>,
                    IF todo = <<>> THEN "_apply_constraints"
                    ELSE "_update_pattern_by_param_values", todo)

(* one edit of the loops of _update_pattern_by_param_values *)
StepForward ==
    /\ pc = "_update_pattern_by_param_values"
    /\ \E ref \in {Head(io.todo)} :
        \E r \in {UpdateEdge(store, ref, store.parameters[ref[1]].type,
                              store.parameters[ref[1]].value)} :
            Stepped(r, "forward", ref,
                    IF Tail(io.todo) = <<>> THEN "_apply_constraints"
                    ELSE "_update_pattern_by_param_values",
                    Tail(io.todo))

(* self._apply_constraints() of _update_pattern_by_param_values; the call  *)
(* returns                                                                 *)
StepConstraints ==
    /\ pc = "_apply_constraints"
    /\ \E r \in {ApplyConstraints(store)} :
            Stepped(r, "_apply_constraints", <<>>, "applied", <<>>)

StepNext ==
    \/ CallApply
    \/ StepInvertConstraints
    \/ StepInverse
    \/ StepAssign
    \/ StepForward
    \/ StepConstraints

SpecSteps == StepInit /\ [][StepNext]_vars

----------------------------------------------------------------------------
(* Claims about the order of edits *)

(* the place of a step in the order of the claim *)
StepRank(step) ==
    CASE step = "_invert_constraints" -> 1
      [] step = "inverse" -> 2
      [] step = "assign" -> 3
      [] step = "forward" -> 4
      [] step = "_apply_constraints" -> 5

(* edge a of the parameters comes before edge b: its parameter is earlier  *)
(* in parameter_order, or its influence in the parameter, or its place in  *)
(* the edge_list                                                           *)
EdgeBefore(a, b) ==
    LET place(ref) == CHOOSE k \in DOMAIN backup.parameter_order :
                        backup.parameter_order[k] = ref[1]
    IN  \/ place(a) < place(b)
        \/ place(a) = place(b) /\ a[2] < b[2]
        \/ place(a) = place(b) /\ a[2] = b[2] /\ a[3] < b[3]

(* every edge of every parameter *)
AllParamEdges ==
    UNION {Range(ParamEdgeRefs(backup, parameter)) :
            parameter \in Range(backup.parameter_order)}

StepsLogged(step) == {k \in DOMAIN io.log : io.log[k].step = step}

(* C20: within one apply_param_list the edits run in this order: the       *)
(* constraint inversions, the inverse transforms in reverse                *)
(* parameter_order (influences and edges reversed too), the assignment of  *)
(* the new values, the forward transforms in parameter_order, the          *)
(* constraints; when the call returns, every edge of every parameter was   *)
(* inverted before the assignment and transformed after it, and the        *)
(* pattern is the one the whole call computes.                             *)
C20_EditsInOrder ==
    io.op = "apply_param_list"
        => /\ \A i, j \in DOMAIN io.log :
                i < j =>
                    /\ StepRank(io.log[i].step) <= StepRank(io.log[j].step)
                    /\ io.log[i].step = io.log[j].step
                        => /\ io.log[i].step \in {"inverse", "forward"}
                           /\ io.log[i].step = "inverse"
                                => EdgeBefore(io.log[j].ref, io.log[i].ref)
                           /\ io.log[i].step = "forward"
                                => EdgeBefore(io.log[i].ref, io.log[j].ref)
           /\ pc = "applied"
                => /\ {io.log[k].ref : k \in StepsLogged("inverse")} = AllParamEdges
                   /\ {io.log[k].ref : k \in StepsLogged("forward")} = AllParamEdges
                   /\ \A step \in {"_invert_constraints", "assign", "_apply_constraints"} :
                        Cardinality(StepsLogged(step)) = 1
                   /\ store = ApplyParamList(backup, io.values).st

(* a second call has returned: five edges were inverted, last to first,    *)
(* and transformed, and the pattern has changed                            *)
C20_Witness ==
    /\ pc = "applied"
    /\ io.calls = 2
    /\ Len(io.log) = 13
    /\ io.log[2] = [step |-> "inverse", ref |-> <<"curve", 1, 1>>]
    /\ io.log[5] = [step |-> "inverse", ref |-> <<"width", 2, 1>>]
    /\ io.log[8] = [step |-> "forward", ref |-> <<"width", 1, 1>>]
    /\ store # backup

----------------------------------------------------------------------------
(* Stitch tags *)

(* edge_mean of stitches_as_tags: the midpoint of the edge of a side *)
EdgeMean(panel, edge) ==
    VScale(<<1, 2>>, VAdd(panel.vertices[panel.edges[edge + 1].endpoints[1] + 1],
                          panel.vertices[panel.edges[edge + 1].endpoints[2] + 1]))

(* edge_tags[side_idx] of stitches_as_tags *)
EdgeTag(st, side) ==
    PointIn3D(EdgeMean(st.panels[side.panel], side.edge),
              EulerMatrix(st.panels[side.panel].rotation),
              st.panels[side.panel].translation)

(* BasicPattern.stitches_as_tags: for every stitch the mean of the tags of *)
(* its two sides, as an array [S][3]; without a stitch numpy makes the     *)
(* array of shape [0]                                                      *)
StitchesAsTags(st) ==
    [idx \in DOMAIN st.stitches |->
        VScale(<<1, 2>>, VAdd(EdgeTag(st, st.stitches[idx][1]),
                              EdgeTag(st, st.stitches[idx][2])))]

(* stitch_tags.shape[-1] *)
LastDim(stitch_tags) == IF stitch_tags = <<>> THEN 0 ELSE 3

(* the assignments tags_per_edge[panel_id][edge_id] = stitch_tags[idx] of  *)
(* the stitch loop of pattern_as_tensors, from side id_side of stitch idx  *)
(* on; stitches_indicies[id_side][idx] is panel_id * max_len + edge_id     *)
RECURSIVE TagEdges(_, _, _, _, _, _)
TagEdges(tags_per_edge, stitch_tags, stitches_indicies, max_len, idx, id_side) ==
    IF idx > Len(stitch_tags) THEN tags_per_edge
    ELSE IF id_side > 2
    THEN TagEdges(tags_per_edge, stitch_tags, stitches_indicies, max_len, idx + 1, 1)
    ELSE TagEdges([tags_per_edge EXCEPT
                        ![(stitches_indicies[id_side][idx] \div max_len) + 1]
                         [(stitches_indicies[id_side][idx] % max_len) + 1] = stitch_tags[idx]],
                  stitch_tags, stitches_indicies, max_len, idx, id_side + 1)

(* tags_per_edge of pattern_as_tensors: zeros of shape [P][E][last dim of  *)
(* stitch_tags], then the tags of the stitched edges                       *)
TagsPerEdge(out, stitch_tags) ==
    TagEdges([panel_id \in DOMAIN out.panel_seqs |->
                [edge_id \in DOMAIN out.panel_seqs[1] |->
                    [d \in 1..LastDim(stitch_tags) |-> Zero]]],
             stitch_tags, out.stitches, out.max_len, 1, 1)

(* pattern_as_tensors(pad_panels_to_len, with_placement=True,              *)
(* with_stitches=True, with_stitch_tags=True): the result of               *)
(* pattern_as_tensors with the tags as its last part                       *)
PatternAsTensorsWithTags(st, pad_panels_to_len) ==
    Only({IF out.err # "ok" THEN out
          ELSE [err |-> "ok", panel_order |-> out.panel_order, max_len |-> out.max_len,
                panel_seqs |-> out.panel_seqs, panel_rotations |-> out.panel_rotations,
                panel_translations |-> out.panel_translations, stitches |-> out.stitches,
                tags_per_edge |-> TagsPerEdge(out, StitchesAsTags(st))] :
            out \in {PatternAsTensors(st, pad_panels_to_len)}})

(* the patterns tagged: front is one of the placed shapes, back a square   *)
(* behind it; no stitch, one stitch or two                                 *)
TaggedStitches ==
    {<<>>,
     <<<<Side("front", 0), Side("back", 2)>>>>,
     <<<<Side("front", 1), Side("back", 3)>>, <<Side("front", 2), Side("back", 1)>>>>}

TaggedPatterns ==
    {[EmptyStore("BasicPattern") EXCEPT
        !.panelNames = <<"front", "back">>,
        !.panels = [n \in {"front", "back"} |-> IF n = "front" THEN f ELSE BackPanel],
        !.stitches = stitches] :
        f \in PlacedPanels, stitches \in TaggedStitches}

TagInit ==
    /\ store \in TaggedPatterns
    /\ pc = "ready"
    /\ io = [op |-> "none"]
    /\ backup = store

(* pattern_as_tensors(pad_panels_to_len, True, True, True) *)
EncodeWithTags ==
    /\ pc = "ready"
    /\ \E pad_panels_to_len \in {NoPad, 4, 5} :
        \E r \in {PatternAsTensorsWithTags(store, pad_panels_to_len)} :
            Encoded([op |-> "pattern_as_tensors", pad_panels_to_len |-> pad_panels_to_len,
                     out |-> None], r, "tagged")

TagNext == EncodeWithTags

SpecTags == TagInit /\ [][TagNext]_vars

----------------------------------------------------------------------------
(* Claims about stitch tags *)

(* the slots [panel index, edge index] of the stitched edges, 1-based *)
StitchedSlots ==
    {<<(io.out.stitches[id_side][idx] \div io.out.max_len) + 1,
       (io.out.stitches[id_side][idx] % io.out.max_len) + 1>> :
        id_side \in 1..2, idx \in DOMAIN store.stitches}

(* C17: the tag tensor of pattern_as_tensors(with_stitch_tags=True) has    *)
(* the shape [P][E][3] for every pattern, also for one with no stitch; the *)
(* slot of every stitched edge holds the tag of its stitch, every other    *)
(* slot the zero vector.                                                   *)
C17_TagTensorShape ==
    pc = "tagged"
        => LET tags == io.out.tags_per_edge
           IN  /\ Len(tags) = Len(store.panelNames)
               /\ \A p \in DOMAIN tags :
                    /\ Len(tags[p]) = io.out.max_len
                    /\ \A e \in DOMAIN tags[p] :
                        /\ Len(tags[p][e]) = 3
                        /\ <<p, e>> \notin StitchedSlots => tags[p][e] = <<Zero, Zero, Zero>>
               /\ \A idx \in DOMAIN store.stitches : \A id_side \in 1..2 :
                    tags[(io.out.stitches[id_side][idx] \div io.out.max_len) + 1]
                        [(io.out.stitches[id_side][idx] % io.out.max_len) + 1]
                        = StitchesAsTags(store)[idx]

----------------------------------------------------------------------------
(* Loading: the constructor with a file and reloadJSON.                    *)
(*                                                                         *)
(* A document is the JSON object of the file: keys is the set of its       *)
(* top-level keys, and each key it has is a field (a key it has not is a   *)
(* field with an empty value that nothing reads). The object (self) is     *)
(* its class and the values of its attributes spec, pattern, properties    *)
(* and parameters.                                                         *)

Properties(curvature_coords, units_in_meter, normalize_panel_translation) ==
    [curvature_coords |-> curvature_coords, units_in_meter |-> units_in_meter,
     normalize_panel_translation |-> normalize_panel_translation,
     original_units_in_meter |-> Absent]

NoPattern == [panelNames |-> <<>>, panels |-> EmptyDict, stitches |-> <<>>]
NoProperties == Properties("", Absent, FALSE)
NoDict == [names |-> <<>>, of |-> EmptyDict]

NoDocument ==
    [keys |-> {}, pattern |-> NoPattern, properties |-> NoProperties,
     parameters |-> NoDict, parameter_order |-> <<>>, constraints |-> NoDict]

(* the object at the start of BasicPattern.__init__(pattern_file) *)
NewObject(cls) ==
    [cls |-> cls, spec |-> NoDocument, pattern |-> NoPattern,
     properties |-> NoProperties, parameters |-> NoDict]

(* BasicPattern._control_to_relative_coord *)
ControlToRelativeCoord(start, end, control_point) ==
    LET edge_vec == VSub(end, start)
        edge_len == Norm(edge_vec)
        control_vec == VSub(control_point, start)
        control_projected_len == RDiv(Dot(edge_vec, control_vec), edge_len)
        x_scale == RDiv(control_projected_len, edge_len)
        vert_comp == VSub(control_vec, VScale(x_scale, edge_vec))
        cross == RSub(RMul(control_point[1], edge_vec[2]),
                      RMul(control_point[2], edge_vec[1]))
    IN  <<x_scale, RMul(RDiv(Norm(vert_comp), edge_len), I(RSign(cross)))>>

(* the curvature loop of _normalize_template for one panel *)
RelativeCurvatures(panel) ==
    [panel EXCEPT !.edges =
        [e \in DOMAIN panel.edges |->
            IF panel.edges[e].curvature = Absent THEN panel.edges[e]
            ELSE [panel.edges[e] EXCEPT !.curvature =
                    ControlToRelativeCoord(
                        panel.vertices[panel.edges[e].endpoints[1] + 1],
                        panel.vertices[panel.edges[e].endpoints[2] + 1], @)]]]

(* BasicPattern._normalize_panel_scaling *)
NormalizePanelScaling(panel, units_in_meter) ==
    LET scaling == RDiv(I(100), units_in_meter)
    IN  [panel EXCEPT
            !.vertices = [v \in DOMAIN @ |-> VScale(scaling, @[v])],
            !.translation = VScale(scaling, @)]

(* np.mean(vertices, axis=0) *)
MeanVertex(vertices) ==
    <<RDiv(RSum([v \in DOMAIN vertices |-> vertices[v][1]]), I(Len(vertices))),
      RDiv(RSum([v \in DOMAIN vertices |-> vertices[v][2]]), I(Len(vertices)))>>

(* BasicPattern._normalize_panel_translation and the update of the         *)
(* translation vector that follows it in _normalize_template               *)
NormalizePanelTranslation(panel) ==
    LET offset == MeanVertex(panel.vertices)
    IN  [panel EXCEPT
            !.vertices = [v \in DOMAIN @ |-> VSub(@[v], offset)],
            !.translation = <<RAdd(@[1], offset[1]), RAdd(@[2], offset[2]), @[3]>>]

(* the three parts of _normalize_template: each takes and gives the        *)
(* pattern and the properties                                              *)
NormalizeCurvature(n) ==
    IF n.properties.curvature_coords = "absolute"
    THEN [pattern |-> [n.pattern EXCEPT !.panels =
                        [name \in DOMAIN @ |-> RelativeCurvatures(@[name])]],
          properties |-> [n.properties EXCEPT !.curvature_coords = "relative"]]
    ELSE n

NormalizeUnits(n) ==
    IF n.properties.units_in_meter # Absent /\ n.properties.units_in_meter # I(100)
    THEN [pattern |-> [n.pattern EXCEPT !.panels =
                        [name \in DOMAIN @ |->
                            NormalizePanelScaling(@[name], n.properties.units_in_meter)]],
          properties |-> [n.properties EXCEPT
                            !.original_units_in_meter = n.properties.units_in_meter,
                            !.units_in_meter = I(100)]]
    ELSE n

NormalizeTranslation(n) ==
    IF n.properties.normalize_panel_translation
    THEN [pattern |-> [n.pattern EXCEPT !.panels =
                        [name \in DOMAIN @ |-> NormalizePanelTranslation(@[name])]],
          properties |-> [n.properties EXCEPT !.normalize_panel_translation = FALSE]]
    ELSE n

(* BasicPattern._normalize_template *)
NormalizeTemplate(pattern, properties) ==
    NormalizeTranslation(NormalizeUnits(NormalizeCurvature(
        [pattern |-> pattern, properties |-> properties])))

(* BasicPattern.reloadJSON of an object with a file; document is what      *)
(* json.load gives                                                         *)
BasicReloadJSON(self, document) ==
    IF "pattern" \notin document.keys
    THEN Raise([self EXCEPT !.spec = document], "KeyError")
    ELSE IF "properties" \notin document.keys
    THEN Raise([self EXCEPT !.spec = document, !.pattern = document.pattern], "KeyError")
    ELSE Only({Ok([self EXCEPT !.spec = [document EXCEPT !.pattern = n.pattern,
                                                         !.properties = n.properties],
                               !.pattern = n.pattern, !.properties = n.properties]) :
                n \in {NormalizeTemplate(document.pattern, document.properties)}})

(* ParametrizedPattern._normalize_param_scaling on a dict of parameters *)
NormalizeParamScaling(parameters, original_units_in_meter) ==
    LET scaling == RDiv(I(100), original_units_in_meter)
    IN  [parameters EXCEPT !.of =
            [name \in DOMAIN @ |->
                IF @[name].type = "additive_length"
                THEN [@[name] EXCEPT !.value = RMul(scaling, @),
                                     !.range = <<RMul(scaling, @[1]), RMul(scaling, @[2])>>]
                ELSE @[name]]]

(* ParametrizedPattern.reloadJSON after super().reloadJSON() *)
LoadParameters(r) ==
    IF r.err # "ok" THEN r
    ELSE IF "parameters" \notin r.st.spec.keys THEN Raise(r.st, "KeyError")
    ELSE IF r.st.properties.original_units_in_meter = Absent
    THEN Ok([r.st EXCEPT !.parameters = r.st.spec.parameters])
    ELSE Only({Ok([r.st EXCEPT !.parameters = scaled, !.spec.parameters = scaled,
                               !.properties.original_units_in_meter = Absent,
                               !.spec.properties.original_units_in_meter = Absent]) :
                scaled \in {NormalizeParamScaling(r.st.spec.parameters,
                                r.st.properties.original_units_in_meter)}})

(* reloadJSON as the object's class defines it *)
ReloadJSON(self, document) ==
    IF self.cls = "BasicPattern" THEN BasicReloadJSON(self, document)
    ELSE Only({LoadParameters(r) : r \in {BasicReloadJSON(self, document)}})

(* the constructor with a file: BasicPattern.__init__ calls                *)
(* self.reloadJSON(), ParametrizedPattern.__init__ then sets               *)
(* self.parameters = self.spec['parameters']                               *)
Constructed(r) ==
    IF r.err # "ok" \/ r.st.cls = "BasicPattern" THEN r
    ELSE Ok([r.st EXCEPT !.parameters = r.st.spec.parameters])

NewPattern(cls, document) ==
    Only({Constructed(r) : r \in {ReloadJSON(NewObject(cls), document)}})

(* the documents of the files: the two panels with the curvature of the    *)
(* right side of front in relative or in absolute coordinates (the control *)
(* point (10, 4)), in centimeters, millimeters, half-meters or with no     *)
(* unit, with or without the request to normalize the translation          *)
DocumentPattern(curvature_coords) ==
    [panelNames |-> <<"front", "back">>,
     panels |-> [n \in {"front", "back"} |->
                    IF n = "back" THEN BackPanel
                    ELSE IF curvature_coords = "relative" THEN FrontPanel
                    ELSE [FrontPanel EXCEPT !.edges[3].curvature = <<I(10), I(4)>>]],
     stitches |-> <<<<[panel |-> "front", edge |-> 4], [panel |-> "back", edge |-> 1]>>>>]

DocumentUnits == {Absent, I(100), I(1000), I(50)}

(* the parameters of a document: none; the additive hem with the value 2   *)
(* and width with the value 1/2, neither in the parameter_order; width     *)
(* with the value 2, in the parameter_order                                *)
DocumentParameters(parameters) ==
    CASE parameters = "none" -> NoDict
      [] parameters = "unordered" ->
            [names |-> <<"hem", "width">>,
             of |-> [p \in {"hem", "width"} |->
                        [TemplateParameters("end", One)[p] EXCEPT
                            !.value = IF p = "hem" THEN I(2) ELSE <<1, 2>>]]]
      [] parameters = "width" ->
            [names |-> <<"width">>,
             of |-> [p \in {"width"} |->
                        [TemplateParameters("end", One)["width"] EXCEPT !.value = I(2)]]]

DocumentConstraints(constrained) ==
    IF constrained
    THEN [names |-> <<"tops">>, of |-> [c \in {"tops"} |-> TemplateConstraint("tops", "end")]]
    ELSE NoDict

FullDocument(curvature_coords, units_in_meter, normalize, parameters, constrained) ==
    [keys |-> {"pattern", "properties", "parameters", "parameter_order"}
                \cup (IF constrained THEN {"constraints"} ELSE {}),
     pattern |-> DocumentPattern(curvature_coords),
     properties |-> Properties(curvature_coords, units_in_meter, normalize),
     parameters |-> DocumentParameters(parameters),
     parameter_order |-> IF parameters = "width" THEN <<"width">> ELSE <<>>,
     constraints |-> DocumentConstraints(constrained)]

(* a document without one of its keys *)
Without(document, key) ==
    [keys |-> document.keys \ {key},
     pattern |-> IF key = "pattern" THEN NoPattern ELSE document.pattern,
     properties |-> IF key = "properties" THEN NoProperties ELSE document.properties,
     parameters |-> IF key = "parameters" THEN NoDict ELSE document.parameters,
     parameter_order |-> IF key = "parameter_order" THEN <<>> ELSE document.parameter_order,
     constraints |-> document.constraints]

FullDocuments ==
    {FullDocument(curvature_coords, units_in_meter, normalize, parameters, constrained) :
        curvature_coords \in {"relative", "absolute"}, units_in_meter \in DocumentUnits,
        normalize \in BOOLEAN, parameters \in {"none", "unordered", "width"},
        constrained \in BOOLEAN}

FileDocuments ==
    FullDocuments
    \cup {Without(FullDocument("relative", I(1000), FALSE, "unordered", FALSE), key) :
            key \in {"pattern", "properties", "parameters", "parameter_order"}}

(* the documents a file holds when it is read again *)
ReloadDocuments ==
    {FullDocument(curvature_coords, units_in_meter, FALSE, parameters, constrained) :
        curvature_coords \in {"relative", "absolute"}, units_in_meter \in {Absent, I(1000)},
        parameters \in {"none", "unordered", "width"}, constrained \in BOOLEAN}
    \cup (FileDocuments \ FullDocuments)

(* the loads of one object: its construction and the calls of reloadJSON *)
MaxLoads == 3

LoadInit ==
    /\ store \in {NewObject("BasicPattern"), NewObject("ParametrizedPattern")}
    /\ pc = "new"
    /\ io = [op |-> "none"]
    /\ backup = store

(* the call has returned or raised r.err and the object is r.st; backup is *)
(* the object before the call                                              *)
Loaded(call, r) ==
    /\ store' = r.st
    /\ pc' = IF r.err = "ok" THEN "loaded" ELSE "raised"
    /\ io' = [call EXCEPT !.err = r.err]
    /\ backup' = store

(* cls(pattern_file), the file holding document *)
Construct ==
    /\ pc = "new"
    /\ \E document \in FileDocuments :
        \E r \in {NewPattern(store.cls, document)} :
            Loaded([op |-> "__init__", document |-> document, loads |-> 1, err |-> "ok"], r)

(* reloadJSON() of a constructed object, the file now holding document; an *)
(* object whose reloadJSON has raised stays in use                         *)
Reload ==
    /\ pc = "loaded" \/ (pc = "raised" /\ io.op = "reloadJSON")
    /\ io.loads < MaxLoads
    /\ \E document \in ReloadDocuments :
        \E r \in {ReloadJSON(store, document)} :
            Loaded([op |-> "reloadJSON", document |-> document, loads |-> io.loads + 1,
                    err |-> "ok"], r)

LoadNext == Construct \/ Reload

SpecLoad == LoadInit /\ [][LoadNext]_vars

----------------------------------------------------------------------------
(* Claims about loading *)

(* C16: after every load that succeeds (the constructor with a file, or    *)
(* reloadJSON) properties.curvature_coords is 'relative' and               *)
(* properties.units_in_meter is 100, whatever the document's               *)
(* curvature_coords and whether or not it has units_in_meter.              *)
C16_LoadNormalizesProperties ==
    pc = "loaded"
        => /\ store.properties.curvature_coords = "relative"
           /\ store.properties.units_in_meter = I(100)

RequiredKeys(cls) ==
    IF cls = "ParametrizedPattern" THEN {"pattern", "properties", "parameters"}
    ELSE {"pattern", "properties"}

(* C18: reloadJSON on a document that lacks a required top-level key       *)
(* raises, and the object's spec, pattern, properties and parameters are   *)
(* the same as before the call.                                            *)
C18_MalformedReloadLeavesObject ==
    (io.op = "reloadJSON" /\ ~(RequiredKeys(store.cls) \subseteq io.document.keys))
        => /\ pc = "raised"
           /\ store.spec = backup.spec
           /\ store.pattern = backup.pattern
           /\ store.properties = backup.properties
           /\ store.parameters = backup.parameters

----------------------------------------------------------------------------
(* _apply_constraints and _invert_constraints, constraint by constraint:   *)
(* io.applied and io.inverted list the constraints the loops have visited  *)

(* a constraint with an influence whose edge_list is empty *)
EmptyConstraint == LengthEquality(<<Influence("front", <<>>)>>)

OrderedConstraint(constraint_n, direction) ==
    IF constraint_n = "none" THEN EmptyConstraint
    ELSE TemplateConstraint(constraint_n, direction)

(* the sequences without repetition of one to three of the names *)
ConstraintNameLists ==
    {s \in SeqsUpTo({"tops", "sides", "none"}, 3) :
        Len(s) > 0 /\ \A i, j \in DOMAIN s : i # j => s[i] # s[j]}

(* the loaded templates: the 'constraints' map has its entries in the      *)
(* order constraintNames; 'constraint_order' lists them in the same order, *)
(* in the reverse order, or is not in the spec; or the spec has no         *)
(* 'constraints'                                                           *)
ConstraintOrder(names, order) ==
    CASE order = "declared" -> names
      [] order = "reversed" -> Reversed(names)
      [] order = "absent" -> Absent

ConstraintTemplates ==
    {[Document("ParametrizedPattern", <<"width", "hem", "curve">>,
               TemplateParameters(direction, One), names,
               [c \in Range(names) |-> OrderedConstraint(c, direction)])
        EXCEPT !.constraint_order = ConstraintOrder(names, order)] :
        direction \in {"start", "end"},
        names \in ConstraintNameLists,
        order \in {"declared", "reversed", "absent"}}
    \cup
    {[Document("ParametrizedPattern", <<"width", "hem", "curve">>,
               TemplateParameters("end", One), <<>>, EmptyDict)
        EXCEPT !.hasConstraints = FALSE, !.constraint_order = Absent]}

ConstrInit ==
    /\ store \in ConstraintTemplates
    /\ pc = "template"
    /\ io = [op |-> "none"]
    /\ backup = store

(* _apply_constraints() is called: the loop is over the keys of            *)
(* self.spec['constraints']; backup keeps the pattern as it is at the call *)
CallApplyConstraints ==
    /\ pc = "template"
    /\ \E todo \in {IF store.hasConstraints THEN store.constraintNames ELSE <<>>} :
        /\ io' = [op |-> "_apply_constraints", todo |-> todo, applied |-> <<>>,
                  inverted |-> <<>>, err |-> "ok"]
        /\ pc' = IF todo = <<>> THEN "constrained" ELSE "_apply_constraints"
    /\ backup' = store
    /\ UNCHANGED store

(* one pass of the loop of _apply_constraints: the method returns when the *)
(* constraint has no edge                                                  *)
StepApplyConstraint ==
    /\ pc = "_apply_constraints"
    /\ \E r \in {ApplyConstraint(store, Head(io.todo))} :
        /\ store' = r.st
        /\ io' = [io EXCEPT !.applied = Append(@, Head(io.todo)), !.todo = Tail(@),
                            !.err = r.err]
        /\ pc' = IF r.err # "ok" THEN "raised"
                 ELSE IF r.done \/ Tail(io.todo) = <<>> THEN "constrained"
                 ELSE "_apply_constraints"
    /\ UNCHANGED backup

(* _invert_constraints() is called after _apply_constraints(): the loop is *)
(* over reversed(self.spec['constraint_order'])                            *)
CallInvertConstraints ==
    /\ pc = "constrained"
    /\ io.op = "_apply_constraints"
    /\ \E order \in {IF ~store.hasConstraints THEN <<>> ELSE store.constraint_order} :
        \E todo \in {IF order = Absent THEN <<>> ELSE Reversed(order)} :
            /\ io' = [io EXCEPT !.op = "_invert_constraints", !.todo = todo,
                                !.err = IF order = Absent THEN "KeyError" ELSE "ok"]
            /\ pc' = IF order = Absent THEN "raised"
                     ELSE IF todo = <<>> THEN "inverted"
                     ELSE "_invert_constraints"
    /\ UNCHANGED <<store, backup>>

(* one pass of the loop of _invert_constraints *)
StepInvertConstraint ==
    /\ pc = "_invert_constraints"
    /\ \E r \in {InvertConstraintsFrom(store, <<Head(io.todo)>>, 1)} :
        /\ store' = r.st
        /\ io' = [io EXCEPT !.inverted = Append(@, Head(io.todo)), !.todo = Tail(@),
                            !.err = r.err]
        /\ pc' = IF r.err # "ok" THEN "raised"
                 ELSE IF Tail(io.todo) = <<>> THEN "inverted"
                 ELSE "_invert_constraints"
    /\ UNCHANGED backup

ConstrNext ==
    \/ CallApplyConstraints
    \/ StepApplyConstraint
    \/ CallInvertConstraints
    \/ StepInvertConstraint

SpecConstr == ConstrInit /\ [][ConstrNext]_vars

----------------------------------------------------------------------------
(* Claims about the order of constraints *)

(* C21: for every spec with a 'constraints' map, _apply_constraints        *)
(* applies every declared constraint, in declaration order, also when an   *)
(* earlier one has no edge; _invert_constraints completes and visits the   *)
(* same constraints, the last applied first.                               *)
C21_ConstraintsInvertedInReverse ==
    /\ (io.op = "_apply_constraints" /\ pc = "constrained" /\ backup.hasConstraints)
            => io.applied = backup.constraintNames
    /\ (io.op = "_invert_constraints" /\ pc \in {"inverted", "raised"}
            /\ backup.hasConstraints)
            => /\ pc = "inverted"
               /\ io.inverted = Reversed(io.applied)

----------------------------------------------------------------------------
(* The snapshot of _randomize_pattern: objects and references.             *)
(*                                                                         *)
(* heap maps the address of a dict to its value; the spec dict holds the   *)
(* addresses of its 'pattern', 'properties', 'parameters' and              *)
(* 'constraints' dicts (0 for a key the spec has not), and what is below   *)
(* these dicts is in their values. self holds the addresses of the         *)
(* object's attributes spec, pattern, properties and parameters;           *)
(* spec_backup is the local variable of _randomize_pattern (0 before it is *)
(* assigned).                                                              *)

NoAddress == 0

(* the dicts of one spec *)
SpecDicts == 5

(* the addresses of the dicts that the spec dict at address a holds *)
Reachable(heap, a) ==
    IF a = NoAddress THEN {}
    ELSE {a, heap[a].pattern, heap[a].properties, heap[a].parameters, heap[a].constraints}
            \ {NoAddress}

(* the addresses in use: those reachable from the object's attributes and  *)
(* from spec_backup                                                        *)
InUse(obj) ==
    Reachable(obj.heap, obj.self.spec) \cup Reachable(obj.heap, obj.spec_backup)
        \cup ({obj.self.pattern, obj.self.properties, obj.self.parameters} \ {NoAddress})

(* the first address of the first block of SpecDicts addresses of which    *)
(* none is in use                                                          *)
FreeBlock(used) ==
    CHOOSE base \in {SpecDicts * k + 1 : k \in 0..Cardinality(used)} :
        /\ \A i \in 0..(SpecDicts - 1) : base + i \notin used
        /\ \A k \in 0..Cardinality(used) :
            (SpecDicts * k + 1 < base) => \E i \in 0..(SpecDicts - 1) : SpecDicts * k + 1 + i \in used

(* the spec at address a as a value: every address replaced by the dict it *)
(* refers to                                                               *)
SpecValue(heap, a) ==
    [pattern |-> heap[heap[a].pattern],
     properties |-> heap[heap[a].properties],
     parameters |-> heap[heap[a].parameters],
     hasConstraints |-> heap[a].constraints # NoAddress,
     constraints |-> IF heap[a].constraints = NoAddress THEN NoDict
                     ELSE heap[heap[a].constraints],
     parameter_order |-> heap[a].parameter_order,
     constraint_order |-> heap[a].constraint_order]

(* a copy that is the object itself: the result refers to the dict at a *)
DeepCopy_Alias(heap, used, a) == [heap |-> heap, addr |-> a]

(* copy.deepcopy of the spec dict at address a: new dicts, at addresses    *)
(* not in use, with the values of those reachable from a                   *)
DeepCopy(heap, used, a) ==
    LET base == FreeBlock(used)
        new == base..(base + SpecDicts - 1)
        spec == heap[a]
        copy == [spec EXCEPT !.pattern = base + 1, !.properties = base + 2,
                             !.parameters = base + 3,
                             !.constraints = IF @ = NoAddress THEN NoAddress ELSE base + 4]
    IN  [heap |-> [x \in (DOMAIN heap \cup new) \ (IF spec.constraints = NoAddress
                                                    THEN {base + 4} ELSE {}) |->
                    CASE x = base -> copy
                      [] x = base + 1 -> heap[spec.pattern]
                      [] x = base + 2 -> heap[spec.properties]
                      [] x = base + 3 -> heap[spec.parameters]
                      [] x = base + 4 -> heap[spec.constraints]
                      [] OTHER -> heap[x]],
         addr |-> base]

(* the dicts no longer in use are gone *)
Collected(obj) == [obj EXCEPT !.heap = [x \in InUse(obj) |-> obj.heap[x]]]

(* BasicPattern._restore and ParametrizedPattern._restore: self.spec is a  *)
(* deep copy of backup_copy, and pattern, properties and parameters are    *)
(* the dicts of self.spec                                                  *)
RestoreFrom(obj, backup_copy) ==
    Only({Collected([obj EXCEPT
                !.heap = copied.heap,
                !.self = [spec |-> copied.addr,
                          pattern |-> copied.heap[copied.addr].pattern,
                          properties |-> copied.heap[copied.addr].properties,
                          parameters |-> copied.heap[copied.addr].parameters]]) :
            copied \in {DeepCopy(obj.heap, InUse(obj), backup_copy)}})

(* spec_backup = copy.deepcopy(self.spec) *)
TakeSnapshot(obj) ==
    Only({[obj EXCEPT !.heap = copied.heap, !.spec_backup = copied.addr] :
            copied \in {DeepCopy(obj.heap, InUse(obj), obj.self.spec)}})

(* the object as the methods of the engine read it: the panels through     *)
(* self.pattern, the parameters through self.parameters, the orders and    *)
(* the constraints through self.spec                                       *)
EngineView(obj) ==
    LET spec == obj.heap[obj.self.spec]
        pattern == obj.heap[obj.self.pattern]
        parameters == obj.heap[obj.self.parameters]
        constraints == IF spec.constraints = NoAddress THEN NoDict
                       ELSE obj.heap[spec.constraints]
    IN  [cls |-> obj.cls,
         panelNames |-> pattern.panelNames, panels |-> pattern.panels,
         stitches |-> pattern.stitches,
         paramNames |-> parameters.names, parameters |-> parameters.of,
         parameter_order |-> spec.parameter_order,
         hasConstraints |-> spec.constraints # NoAddress,
         constraintNames |-> constraints.names, constraints |-> constraints.of,
         constraint_order |-> spec.constraint_order]

(* the object after the engine has edited, in place, the dicts it reads *)
EditedInPlace(obj, st) ==
    LET spec == obj.heap[obj.self.spec]
        panels == [obj.heap EXCEPT ![obj.self.pattern].panels = st.panels]
        values == [panels EXCEPT ![obj.self.parameters].of = st.parameters]
    IN  [obj EXCEPT !.heap =
            IF spec.constraints = NoAddress THEN values
            ELSE [values EXCEPT ![spec.constraints].of = st.constraints]]

(* the object after a load of the template st *)
LoadedObject(st) ==
    [cls |-> st.cls,
     heap |-> [x \in (1..SpecDicts) \ (IF st.hasConstraints THEN {} ELSE {SpecDicts}) |->
                CASE x = 1 -> [pattern |-> 2, properties |-> 3, parameters |-> 4,
                               constraints |-> IF st.hasConstraints THEN 5 ELSE NoAddress,
                               parameter_order |-> st.parameter_order,
                               constraint_order |-> st.constraint_order]
                  [] x = 2 -> [panelNames |-> st.panelNames, panels |-> st.panels,
                               stitches |-> st.stitches]
                  [] x = 3 -> Properties("relative", I(100), FALSE)
                  [] x = 4 -> [names |-> st.paramNames, of |-> st.parameters]
                  [] x = 5 -> [names |-> st.constraintNames, of |-> st.constraints]],
     self |-> [spec |-> 1, pattern |-> 2, properties |-> 3, parameters |-> 4],
     spec_backup |-> NoAddress]

(* the loaded templates: those of the randomization, without a constraint  *)
(* or with the constraint over the upper sides of front and back           *)
SnapshotTemplates ==
    RandomizedTemplates
    \cup {Document("ParametrizedPattern", <<"hem", "curve">>,
                   RandomizedParameters(direction), <<"tops">>,
                   [c \in {"tops"} |-> TemplateConstraint("tops", direction)]) :
            direction \in {"start", "end"}}

(* backup is the value of the spec that spec_backup was given *)
SnapInit ==
    /\ store \in {LoadedObject(st) : st \in SnapshotTemplates}
    /\ pc = "ready"
    /\ io = [op |-> "none"]
    /\ backup = SpecValue(store.heap, store.self.spec)

(* _randomize_pattern() up to the assignment of spec_backup: the template  *)
(* is restored in place and self.spec is copied                            *)
SnapBegin ==
    /\ pc = "ready"
    /\ \E r \in {RestoreTemplate(EngineView(store), FALSE)} :
        \E restored \in {EditedInPlace(store, r.st)} :
            IF r.err # "ok"
            THEN /\ store' = restored
                 /\ pc' = "raised"
                 /\ io' = [op |-> "_randomize_pattern", trial |-> 0, err |-> r.err]
                 /\ UNCHANGED backup
            ELSE \E snap \in {TakeSnapshot(restored)} :
                    /\ store' = snap
                    /\ pc' = "snapshot"
                    /\ io' = [op |-> "_randomize_pattern", trial |-> 0, err |-> "ok"]
                    /\ backup' = SpecValue(snap.heap, snap.spec_backup)

(* self._randomize_parameters(); self._update_pattern_by_param_values():   *)
(* both edit the dicts of the live spec in place                           *)
SnapRandomize ==
    /\ pc \in {"snapshot", "restored"}
    /\ \E view \in {EngineView(store)} :
        \E draws \in DrawsFor(view) :
          \E r \in {UpdatePatternByParamValues(RandomizeParameters(view, draws))} :
            /\ store' = EditedInPlace(store, r.st)
            /\ pc' = IF r.err = "ok" THEN "loop" ELSE "raised"
            /\ io' = [io EXCEPT !.err = r.err]
    /\ UNCHANGED backup

(* a trial of the loop whose check passes: break, and the method returns *)
SnapCheckPasses ==
    /\ pc = "loop"
    /\ io.trial < MaxTrials
    /\ ~IsSelfIntersecting(EngineView(store))
    /\ pc' = "returned"
    /\ UNCHANGED <<store, io, backup>>

(* a trial of the loop whose check fails: self._restore(spec_backup) *)
SnapRestore ==
    /\ pc = "loop"
    /\ io.trial < MaxTrials
    /\ IsSelfIntersecting(EngineView(store))
    /\ store' = RestoreFrom(store, store.spec_backup)
    /\ pc' = "restored"
    /\ io' = [io EXCEPT !.trial = NextTrial(@)]
    /\ UNCHANGED backup

(* the loop is at its end: the method returns *)
SnapExhausted ==
    /\ pc = "loop"
    /\ io.trial >= MaxTrials
    /\ pc' = "returned"
    /\ UNCHANGED <<store, io, backup>>

SnapNext ==
    \/ SnapBegin
    \/ SnapRandomize
    \/ SnapCheckPasses
    \/ SnapRestore
    \/ SnapExhausted

SpecSnap == SnapInit /\ [][SnapNext]_vars

----------------------------------------------------------------------------
(* Claims about the snapshot *)

(* C22: in _randomize_pattern no attempt changes the snapshot: the spec    *)
(* that spec_backup refers to keeps the value it was given whatever is     *)
(* edited in the live spec; after each _restore(spec_backup) the live spec *)
(* has that value (the template geometry, the constraint values reset),    *)
(* self.pattern, self.properties and self.parameters are the dicts of the  *)
(* restored spec, and the live spec shares no dict with the snapshot.      *)
C22_SnapshotNeverChanged ==
    store.spec_backup # NoAddress
        => /\ SpecValue(store.heap, store.spec_backup) = backup
           /\ pc = "restored"
                => /\ SpecValue(store.heap, store.self.spec) = backup
                   /\ store.self.pattern = store.heap[store.self.spec].pattern
                   /\ store.self.properties = store.heap[store.self.spec].properties
                   /\ store.self.parameters = store.heap[store.self.spec].parameters
                   /\ Reachable(store.heap, store.self.spec)
                        \cap Reachable(store.heap, store.spec_backup) = {}

(* a retry has edited the live spec after a restore: its vertices, its     *)
(* parameter values and its constraint values differ from the snapshot's   *)
C22_Witness ==
    /\ pc = "loop"
    /\ io.trial >= 2
    /\ store.spec_backup # NoAddress
    /\ SpecValue(store.heap, store.self.spec).pattern # backup.pattern
    /\ SpecValue(store.heap, store.self.spec).parameters # backup.parameters
    /\ SpecValue(store.heap, store.self.spec).hasConstraints
    /\ SpecValue(store.heap, store.self.spec).constraints # backup.constraints

----------------------------------------------------------------------------
(* Random values: _randomize_parameters on templates with given ranges,    *)
(* then the update of the pattern and _restore_template                    *)

(* the declared ranges: of factors, around zero, from zero, inside         *)
(* (-0.01, 0.01) on both sides of zero and on one                          *)
ValueRanges ==
    {<<<<1, 2>>, I(2)>>, <<I(-1), One>>, <<Zero, One>>,
     <<<<-1, 200>>, <<1, 200>>>>, <<<<1, 1000>>, <<1, 200>>>>}

(* the parameters of the template: width scales the lower side of front,   *)
(* hem adds to the lower side of back, curve scales the curvature of the   *)
(* right side of front and has one value or a list of two                  *)
ValueParameters(width_range, hem_range, curve_is_list) ==
    [p \in {"width", "hem", "curve"} |->
        CASE p = "width" ->
                Parameter("length", One, width_range,
                    <<Influence("front", <<EdgeInfluence(<<0, 1>>, TRUE, "end")>>)>>)
          [] p = "hem" ->
                Parameter("additive_length", Zero, hem_range,
                    <<Influence("back", <<EdgeInfluence(<<0>>, FALSE, "end")>>)>>)
          [] p = "curve" ->
                Parameter("curve", IF curve_is_list THEN ListValue(One, One) ELSE One,
                    IF curve_is_list THEN <<width_range, hem_range>> ELSE width_range,
                    <<Influence("front", <<2>>)>>)]

ValueTemplates ==
    {IF constrained
     THEN Document("ParametrizedPattern", <<"width", "hem", "curve">>,
                   ValueParameters(width_range, hem_range, curve_is_list), <<"tops">>,
                   [c \in {"tops"} |-> TemplateConstraint("tops", "end")])
     ELSE [Document("ParametrizedPattern", <<"width", "hem", "curve">>,
                    ValueParameters(width_range, hem_range, curve_is_list), <<>>, EmptyDict)
            EXCEPT !.hasConstraints = FALSE, !.constraint_order = Absent] :
        width_range \in ValueRanges, hem_range \in ValueRanges,
        curve_is_list \in BOOLEAN, constrained \in BOOLEAN}

ValuesInit ==
    /\ store \in ValueTemplates
    /\ pc = "template"
    /\ io = [op |-> "none"]
    /\ backup = store

(* _randomize_parameters() on the template *)
RandomizeValues ==
    /\ pc = "template"
    /\ \E draws \in DrawsFor(store) :
        Edited([op |-> "_randomize_parameters", err |-> "ok"],
               Ok(RandomizeParameters(store, draws)), "randomized")

(* _update_pattern_by_param_values() with the random values *)
UpdateRandomized ==
    /\ pc = "randomized"
    /\ \E r \in {UpdatePatternByParamValues(store)} :
        Edited([op |-> "_update_pattern_by_param_values", err |-> "ok"], r, "updated")

(* _restore_template(params_to_default=False), as the next                 *)
(* _randomize_pattern starts with                                          *)
RestoreRandomized ==
    /\ pc = "updated"
    /\ \E r \in {RestoreTemplate(store, FALSE)} :
        Edited([op |-> "_restore_template", err |-> "ok"], r, "restored")

ValuesNext == RandomizeValues \/ UpdateRandomized \/ RestoreRandomized

SpecValues == ValuesInit /\ [][ValuesNext]_vars

----------------------------------------------------------------------------
(* Claims about random values *)

(* the numbers of a parameter value: the value, or the components of a     *)
(* list, paired with the ranges they are drawn from                        *)
ValueComponents(parameter_spec) ==
    IF IsList(parameter_spec.value)
    THEN {<<parameter_spec.value[2], parameter_spec.range[1]>>,
          <<parameter_spec.value[3], parameter_spec.range[2]>>}
    ELSE {<<parameter_spec.value, parameter_spec.range>>}

(* C23: after _randomize_parameters every parameter value, each scalar and *)
(* each list component, has magnitude at least 0.01, and a                 *)
(* _restore_template that follows the randomization does not raise the     *)
(* division error of a zero value.                                         *)
C23_RandomValuesNotZero ==
    /\ pc \in {"randomized", "updated"}
        => \A p \in Range(store.paramNames) :
            \A c \in ValueComponents(store.parameters[p]) : RLe(MinValue, RAbs(c[1]))
    /\ io.op = "_restore_template" => io.err # "ZeroDivisionError"

(* the template is restored from values of which one was drawn as zero     *)
(* and is 0.01                                                             *)
C23_Witness ==
    /\ pc = "restored"
    /\ io.op = "_restore_template"
    /\ store.parameters["width"].value = MinValue
    /\ store.parameters["width"].range = <<I(-1), One>>

(* C27: every value that _randomize_parameters stores lies within the      *)
(* declared range of its parameter, per component for a list, for every    *)
(* range, also one that contains zero or lies inside (-0.01, 0.01).        *)
C27_RandomValuesInRange ==
    pc = "randomized"
        => \A p \in Range(store.paramNames) :
            \A c \in ValueComponents(store.parameters[p]) :
                RLe(c[2][1], c[1]) /\ RLe(c[1], c[2][2])

----------------------------------------------------------------------------
(* Ordering panels placed on a grid *)

(* the translations of the panels: X values 3 and 5 apart, Y values 3 and  *)
(* 5 apart, two Z values                                                   *)
FuzzyPlacements ==
    {<<I(x), I(y), I(z)>> : x \in {0, 3, 5, 8}, y \in {0, 3, 5}, z \in {0, 1}}

FuzzyInit ==
    /\ \E names \in {<<"back">>, <<"front", "back">>, <<"sleeve", "front", "back">>} :
        \E panels \in [Range(names) -> {SquarePanel(t) : t \in FuzzyPlacements}] :
            store = [EmptyStore("BasicPattern") EXCEPT !.panelNames = names, !.panels = panels]
    /\ backup = store
    /\ pc = "ready"
    /\ io = [op |-> "none"]

FuzzyNext == OrderPanels

SpecFuzzy == FuzzyInit /\ [][FuzzyNext]_vars

----------------------------------------------------------------------------
(* Claims about the order of panels *)

Apart(loc, a, b, dim) == ~RLt(RAbs(RSub(loc[a][dim], loc[b][dim])), I(DefaultTolerance))

(* C24 as stated: in the result of panel_order any two panels whose X      *)
(* values differ by at least the tolerance are ordered by X; any two whose *)
(* X values differ by less are ordered by Y, and by Z when their Y values  *)
(* also differ by less than the tolerance.                                 *)
C24_CloseInXOrderedByY ==
    (pc = "ordered" /\ io.out.err = "ok")
        => \A loc \in {LocationDict(store)} :
            \A i, j \in DOMAIN io.out.names :
                i < j => LET a == io.out.names[i]
                             b == io.out.names[j]
                         IN  IF Apart(loc, a, b, 1) THEN RLt(loc[a][1], loc[b][1])
                             ELSE IF Apart(loc, a, b, 2) THEN RLt(loc[a][2], loc[b][2])
                             ELSE RLe(loc[a][3], loc[b][3])

(* the runs of similar values: among the panels S, in the order of their   *)
(* values in dimension dim, a run starts at the least value not yet in a   *)
(* run and holds every panel less than the tolerance above it; RunStart is *)
(* the value at which the run of panel name starts                         *)
RECURSIVE RunStart(_, _, _, _)
RunStart(loc, S, dim, name) ==
    LET least == RMin(SeqOfSet({loc[m][dim] : m \in S}))
    IN  IF RLt(RSub(loc[name][dim], least), I(DefaultTolerance)) THEN least
        ELSE RunStart(loc, {m \in S : ~RLt(RSub(loc[m][dim], least), I(DefaultTolerance))},
                      dim, name)

Run(loc, S, dim, name) == {m \in S : RunStart(loc, S, dim, m) = RunStart(loc, S, dim, name)}

(* C24 as the code has it: two panels of different runs of X are ordered   *)
(* by X; two panels of one run of X are ordered by Y when they are in      *)
(* different runs of Y of that run, and by Z, then by name, when they are  *)
(* in the same; so two panels at least the tolerance apart in X are always *)
(* ordered by X.                                                           *)
C24_RunsOrderedByNextKey ==
    (pc = "ordered" /\ io.out.err = "ok")
        => \A loc \in {LocationDict(store)} :
            \A i, j \in DOMAIN io.out.names :
                i < j => LET a == io.out.names[i]
                             b == io.out.names[j]
                             all == Range(store.panelNames)
                         IN  /\ Apart(loc, a, b, 1) => RLt(loc[a][1], loc[b][1])
                             /\ IF b \notin Run(loc, all, 1, a)
                                THEN RLt(loc[a][1], loc[b][1])
                                ELSE IF b \notin Run(loc, Run(loc, all, 1, a), 2, a)
                                THEN RLt(loc[a][2], loc[b][2])
                                ELSE CoupleLess(loc[a][3], a, loc[b][3], b)

(* three panels with X values 0, 3 and 5: the second and the third are     *)
(* less than the tolerance apart but in two runs, and are ordered by X     *)
(* against their Y                                                         *)
C24_Witness ==
    /\ pc = "ordered"
    /\ io.out.err = "ok"
    /\ Len(io.out.names) = 3
    /\ \E loc \in {LocationDict(store)} :
        /\ ~Apart(loc, io.out.names[2], io.out.names[3], 1)
        /\ io.out.names[3] \notin Run(loc, Range(store.panelNames), 1, io.out.names[2])
        /\ Apart(loc, io.out.names[2], io.out.names[3], 2)
        /\ RLt(loc[io.out.names[3]][2], loc[io.out.names[2]][2])

(* C25: panel_order returns a list with every panel name of the pattern    *)
(* exactly once, for every pattern with at least one panel, also with      *)
(* exactly one; pattern_as_tensors completes for a pattern of one panel.   *)
C25_PanelOrderIsPermutation ==
    (pc = "ordered" /\ Len(store.panelNames) >= 1)
        => /\ io.out.err = "ok"
           /\ Len(io.out.names) = Len(store.panelNames)
           /\ Range(io.out.names) = Range(store.panelNames)
           /\ Len(store.panelNames) = 1 => PatternAsTensors(store, NoPad).err = "ok"

----------------------------------------------------------------------------
(* Encoding a panel, its edge list rotated and its vertices translated *)

(* a square one corner of which is above the lower side by less than the   *)
(* tolerance of numpy.isclose                                              *)
NearlyLevel ==
    [vertices |-> <<<<I(0), <<1, 200000000>>>>, V2(3, 0), V2(3, 3), V2(0, 3)>>,
     edges |-> ChainEdges(4)]

NearPlacements ==
    {<<<<Zero, Zero, Zero>>, <<I(0), I(2), I(1)>>>>,
     <<<<Zero, I(180), Zero>>, <<I(2), I(2), I(-1)>>>>}

(* closed panels, placed *)
CanonPanels ==
    PlacedPanels \cup
    {[translation |-> pl[2], rotation |-> pl[1],
      vertices |-> NearlyLevel.vertices, edges |-> NearlyLevel.edges] : pl \in NearPlacements}

CanonPatterns ==
    {[EmptyStore("BasicPattern") EXCEPT
        !.panelNames = <<"front">>, !.panels = [n \in {"front"} |-> panel]] :
        panel \in CanonPanels}

(* the translations of the vertices of a panel *)
CanonShifts == {V2(0, 0), V2(1, 0), V2(-2, 5), V2(0, -7)}

CanonInit ==
    /\ store \in CanonPatterns
    /\ backup = store
    /\ pc = "ready"
    /\ io = [op |-> "none"]

(* panel_as_numeric('front', pad_to_len) *)
EncodeListed ==
    /\ pc = "ready"
    /\ \E pad_to_len \in {NoPad, MaxPad} :
        \E r \in {PanelAsNumeric(store, "front", pad_to_len)} :
            /\ pc' = IF r.err = "ok" THEN "encoded" ELSE "raised"
            /\ io' = [op |-> "panel_as_numeric", pad_to_len |-> pad_to_len, out |-> r]
    /\ UNCHANGED <<store, backup>>

(* the same panel given differently: panel['edges'] started at another     *)
(* edge, panel['vertices'] moved by one vector                             *)
GiveOtherwise ==
    /\ pc = "encoded"
    /\ \E first \in 0..(Len(store.panels["front"].edges) - 1), by \in CanonShifts :
        /\ first # 0 \/ by # V2(0, 0)
        /\ store' = [store EXCEPT
                        !.panels["front"].edges = RotatedEdges(@, first),
                        !.panels["front"].vertices = ShiftedBy(@, VNeg(by))]
    /\ pc' = "given"
    /\ UNCHANGED <<backup, io>>

(* panel_as_numeric('front', pad_to_len) once more *)
EncodeGiven ==
    /\ pc = "given"
    /\ \E r \in {PanelAsNumeric(store, "front", io.pad_to_len)} :
        /\ pc' = IF r.err = "ok" THEN "again" ELSE "raised"
        /\ io' = [op |-> "panel_as_numeric", pad_to_len |-> io.pad_to_len,
                  out |-> r, first |-> io.out]
    /\ UNCHANGED <<store, backup>>

CanonNext == EncodeListed \/ GiveOtherwise \/ EncodeGiven

SpecCanon == CanonInit /\ [][CanonNext]_vars

----------------------------------------------------------------------------
(* Claims about the canonical encoding *)

(* of the vertices whose y is at most atol above the least y, the first of *)
(* least x (its 0-based id)                                                *)
LowestWithin(panel, atol) ==
    LET low == RMin(Ys(panel.vertices))
        On(i) == RLe(RSub(panel.vertices[i][2], low), atol)
    IN  (CHOOSE i \in DOMAIN panel.vertices :
            /\ On(i)
            /\ \A j \in DOMAIN panel.vertices :
                On(j) => /\ RLe(panel.vertices[i][1], panel.vertices[j][1])
                         /\ j < i => RLt(panel.vertices[i][1], panel.vertices[j][1])) - 1

(* the edge tensor out of the panel starts at vertex origin, and its index *)
(* map is a bijection that sends every edge to the row that holds it       *)
EncodedFrom(panel, out, origin) ==
    LET n == Len(panel.edges)
        vertices == ShiftedBy(panel.vertices, panel.vertices[origin + 1])
    IN  /\ Len(out.edge_ids) = n
        /\ Range(out.edge_ids) = 0..(n - 1)
        /\ \A i \in 1..n :
            /\ out.edges[out.edge_ids[i] + 1] = EdgeAsVector(vertices, panel.edges[i])
            /\ out.edge_ids[i] = 0 => panel.edges[i].endpoints[1] = origin

(* C26 as stated: the first row of the edge tensor of panel_as_numeric     *)
(* starts at the vertex of smallest X among the vertices of minimal Y; the *)
(* tensor is the same for every cyclic rotation of the edge list and every *)
(* translation of the vertices; the index map sends each edge index to the *)
(* row that holds the edge and is a bijection on 0..N-1.                   *)
C26_StartsAtLowestVertex ==
    /\ pc \in {"encoded", "again"}
            => EncodedFrom(store.panels["front"], io.out,
                           CanonicalOrigin(store.panels["front"]))
    /\ pc = "again" => io.out.edges = io.first.edges

(* C26 as the code has it: the first row starts at the first vertex of     *)
(* smallest X among the vertices whose Y is within 1e-8 of the minimal Y;  *)
(* the tensor is the same for every cyclic rotation of the edge list and   *)
(* every translation of the vertices; the index map sends each edge index  *)
(* to the row that holds the edge and is a bijection on 0..N-1.            *)
C26_StartsAtLowestWithinTolerance ==
    /\ pc # "raised"
    /\ pc \in {"encoded", "again"}
            => EncodedFrom(store.panels["front"], io.out,
                           LowestWithin(store.panels["front"], DefaultATol))
    /\ pc = "again" => io.out.edges = io.first.edges

(* the square with a corner just above the lower side, its edge list       *)
(* started at another edge and its vertices moved, encoded once more: the  *)
(* first row starts at the corner, which is not a vertex of minimal Y      *)
C26_Witness ==
    /\ pc = "again"
    /\ store.panels["front"].edges # backup.panels["front"].edges
    /\ store.panels["front"].vertices # backup.panels["front"].vertices
    /\ io.out.edge_ids[1] # 0
    /\ CanonicalOrigin(store.panels["front"])
            # LowestWithin(store.panels["front"], DefaultATol)

----------------------------------------------------------------------------
(* Edits after a direct update: a loaded ParametrizedPattern is updated by *)
(* panel_from_numeric or pattern_from_tensors, then apply_param_list and   *)
(* _randomize_pattern are called on it                                     *)

(* the parameters of the template, those of names without an edge *)
ParametersWithout(names) ==
    [p \in {"width", "hem", "curve"} |->
        IF p \in names
        THEN [TemplateParameters("end", One)[p] EXCEPT
                !.influence = <<Influence(@[1].panel, <<>>)>>]
        ELSE TemplateParameters("end", One)[p]]

(* the patterns updated: the template with a constraint, without one, with *)
(* a constraint and no 'constraint_order', with a list-valued curve, with  *)
(* a first parameter without an edge, with edges only in the constraint,   *)
(* and without any influenced edge                                         *)
UpdatedDocuments ==
    {Document("ParametrizedPattern", <<"width", "hem", "curve">>,
              TemplateParameters("end", One), <<"tops">>,
              [c \in {"tops"} |-> TemplateConstraint("tops", "end")]),
     [Document("ParametrizedPattern", <<"width", "hem", "curve">>,
               TemplateParameters("end", One), <<>>, EmptyDict)
        EXCEPT !.hasConstraints = FALSE, !.constraint_order = Absent],
     [Document("ParametrizedPattern", <<"width", "hem", "curve">>,
               TemplateParameters("end", One), <<"tops">>,
               [c \in {"tops"} |-> TemplateConstraint("tops", "end")])
        EXCEPT !.constraint_order = Absent],
     Document("ParametrizedPattern", <<"width", "hem", "curve">>,
              TemplateParameters("start", ListValue(One, One)), <<"sides">>,
              [c \in {"sides"} |-> TemplateConstraint("sides", "start")]),
     [Document("ParametrizedPattern", <<"width", "hem", "curve">>,
               ParametersWithout({"width"}), <<>>, EmptyDict)
        EXCEPT !.hasConstraints = FALSE, !.constraint_order = Absent],
     Document("ParametrizedPattern", <<"width", "hem", "curve">>,
              ParametersWithout({"width", "hem", "curve"}), <<"tops">>,
              [c \in {"tops"} |-> TemplateConstraint("tops", "end")]),
     [Document("ParametrizedPattern", <<"width", "hem", "curve">>,
               ParametersWithout({"width", "hem", "curve"}), <<>>, EmptyDict)
        EXCEPT !.hasConstraints = FALSE, !.constraint_order = Absent]}

(* edge sequences of a square, of an open chain, of a square two sides of  *)
(* which cross, and of pad rows                                            *)
UpdateSequences ==
    {<<Row(3, 0, Zero, Zero), Row(0, 3, Zero, Zero), Row(-3, 0, Zero, Zero), Row(0, -3, Zero, Zero)>>,
     <<Row(3, 0, Zero, Zero), Row(0, 3, Zero, Zero), PadRow, PadRow>>,
     <<Row(3, 3, Zero, Zero), Row(-3, 0, Zero, Zero), Row(3, -3, Zero, Zero), Row(-3, 0, Zero, Zero)>>,
     <<PadRow, PadRow>>}

(* value lists in param_values_list() form, long enough for every pattern *)
UpdateValueLists ==
    {<<I(2), I(2), I(2), I(2)>>, <<<<1, 2>>, I(-3), <<1, 2>>, <<1, 2>>>>}

UpdateInit ==
    /\ store \in UpdatedDocuments
    /\ backup = store
    /\ pc = "ready"
    /\ io = [op |-> "none"]

(* panel_from_numeric(panel_name, edge_sequence, padded=padded) *)
UpdatePanel ==
    /\ pc = "ready"
    /\ \E panel_name \in {"panel_0", "front"}, edge_sequence \in UpdateSequences,
          padded \in BOOLEAN :
        \E r \in {PanelFromNumeric(store, panel_name, edge_sequence, None, None, padded)} :
            /\ store' = r.st
            /\ pc' = IF r.err = "ok" THEN "updated" ELSE "raised"
            /\ io' = [op |-> "panel_from_numeric", err |-> r.err]
    /\ UNCHANGED backup

(* pattern_from_tensors(pattern_representation, padded=True) *)
UpdatePattern ==
    /\ pc = "ready"
    /\ \E pattern_representation \in [1..1 -> PanelTensors] :
        \E r \in {PatternFromTensors(store, pattern_representation, None, None, None, TRUE)} :
            /\ store' = r.st
            /\ pc' = IF r.err = "ok" THEN "updated" ELSE "raised"
            /\ io' = [op |-> "pattern_from_tensors", err |-> r.err]
    /\ UNCHANGED backup

(* the object was updated directly, and every call since has raised *)
AfterUpdate ==
    \/ pc = "updated"
    \/ pc = "raised" /\ io.op \in {"apply_param_list", "_randomize_pattern"}

(* apply_param_list(values) after the update; backup is the object before  *)
(* the call                                                                *)
ApplyAfterUpdate ==
    /\ AfterUpdate
    /\ \E values \in UpdateValueLists :
        \E r \in {ApplyParamList(store, values)} :
            /\ store' = r.st
            /\ pc' = IF r.err = "ok" THEN "applied" ELSE "raised"
            /\ io' = [op |-> "apply_param_list", err |-> r.err]
    /\ backup' = store

(* _randomize_pattern() after the update, up to its loop; backup is the    *)
(* object before the call when the call raises, and spec_backup else       *)
RandomizeAfterUpdate ==
    /\ AfterUpdate
    /\ \E r \in {RestoreTemplate(store, FALSE)} :
        IF r.err # "ok"
        THEN /\ store' = r.st
             /\ pc' = "raised"
             /\ io' = [op |-> "_randomize_pattern", trial |-> 0, err |-> r.err]
             /\ backup' = store
        ELSE /\ backup' = r.st
             /\ Randomized(r.st, 0)

UpdateNext ==
    \/ UpdatePanel
    \/ UpdatePattern
    \/ ApplyAfterUpdate
    \/ RandomizeAfterUpdate
    \/ CheckPasses
    \/ Retry
    \/ TrialsExhausted

SpecUpdate == UpdateInit /\ [][UpdateNext]_vars

----------------------------------------------------------------------------
(* Claims about edits after a direct update *)

(* a parameter of parameter_order or a constraint of the spec has an edge  *)
(* in its influence                                                        *)
HasInfluencedEdge(st) ==
    \/ \E k \in DOMAIN st.parameter_order : ParamEdgeRefs(st, st.parameter_order[k]) # <<>>
    \/ st.hasConstraints /\ ConstraintEdgeRefs(st) # <<>>

(* C30: once pattern_from_tensors or panel_from_numeric has updated a      *)
(* ParametrizedPattern, every later apply_param_list or _randomize_pattern *)
(* on a pattern with an influenced edge raises before it changes a vertex, *)
(* a curvature or a parameter value: the values stay null.                 *)
C30_EditsRaiseAfterDirectUpdate ==
    (io.op \in {"apply_param_list", "_randomize_pattern"} /\ HasInfluencedEdge(backup))
        => /\ pc = "raised"
           /\ AllValuesNull(backup)
           /\ EditableState(store) = EditableState(backup)
           /\ AllValuesNull(store)

(* the template with a constraint was replaced by pattern_from_tensors,    *)
(* apply_param_list has raised, and _randomize_pattern raises as well      *)
C30_Witness ==
    /\ pc = "raised"
    /\ io.op = "_randomize_pattern"
    /\ io.err = "TypeError"
    /\ HasInfluencedEdge(store)
    /\ AllValuesNull(store)
    /\ store.panelNames = <<"panel_0">>
    /\ store.parameter_order # <<>>

====
